---- MODULE Spec2Model ----
(***************************************************************************)
(* A model of the MIDORI compiler front end and middle end: diagnostics    *)
(* (midori_compiler/errors.py), the type checker                           *)
(* (midori_typecheck/checker.py), the borrow checker (midori_ir/borrow.py) *)
(* and the lowering to MIR (midori_ir/lowering.py).                        *)
(*                                                                         *)
(* The passes are syntax directed traversals of an AST.  Each pass is      *)
(* modelled as a state machine that holds the pass's data structures and   *)
(* takes one step per syntactic element it visits; the sequence of steps   *)
(* of a behaviour is the program being compiled.                           *)
(***************************************************************************)
EXTENDS Integers, Sequences, FiniteSets, TLC

(***************************************************************************)
(* Text.  Python strings are sequences of one-character strings (the       *)
(* backtick is written "BACKTICK"), so that                                *)
(* str.lower(), `in`, startswith and isupper are computed, not tabulated.  *)
(***************************************************************************)
UpperChars ==
    <<"A","B","C","D","E","F","G","H","I","J","K","L","M","N","O","P","Q","R","S","T","U","V","W","X","Y","Z">>
LowerChars ==
    <<"a","b","c","d","e","f","g","h","i","j","k","l","m","n","o","p","q","r","s","t","u","v","w","x","y","z">>

IsUpperChar(c) == \E i \in 1..Len(UpperChars) : UpperChars[i] = c

LowerChar(c) ==
    IF IsUpperChar(c)
    THEN LowerChars[CHOOSE i \in 1..Len(UpperChars) : UpperChars[i] = c]
    ELSE c

\* str.lower()
Lower(s) == [i \in 1..Len(s) |-> LowerChar(s[i])]

\* needle in hay
Contains(hay, needle) ==
    \E i \in 0..(Len(hay) - Len(needle)) : SubSeq(hay, i + 1, i + Len(needle)) = needle

\* s.startswith(p)
StartsWith(s, p) == Len(p) <= Len(s) /\ SubSeq(s, 1, Len(p)) = p

(***************************************************************************)
(* errors.py: the diagnostic code is inferred from the raising module and  *)
(* the lower-cased message, first match wins.                              *)
(***************************************************************************)
N_invalid_character ==
    <<"i","n","v","a","l","i","d"," ","c","h","a","r","a","c","t","e","r">>
N_unterminated_string ==
    <<"u","n","t","e","r","m","i","n","a","t","e","d"," ","s","t","r","i","n","g"," ","l","i","t","e","r","a","l">>
N_unterminated_char ==
    <<"u","n","t","e","r","m","i","n","a","t","e","d"," ","c","h","a","r"," ","l","i","t","e","r","a","l">>
N_invalid_char_literal ==
    <<"i","n","v","a","l","i","d"," ","c","h","a","r"," ","l","i","t","e","r","a","l">>
N_unterminated_block_comment ==
    <<"u","n","t","e","r","m","i","n","a","t","e","d"," ","b","l","o","c","k"," ","c","o","m","m","e","n","t">>
N_expected_ ==
    <<"e","x","p","e","c","t","e","d"," ">>
N_duplicate_function ==
    <<"d","u","p","l","i","c","a","t","e"," ","f","u","n","c","t","i","o","n">>
N_duplicate_enum ==
    <<"d","u","p","l","i","c","a","t","e"," ","e","n","u","m">>
N_duplicate_enum_variant ==
    <<"d","u","p","l","i","c","a","t","e"," ","e","n","u","m"," ","v","a","r","i","a","n","t">>
N_missing_entry_point ==
    <<"m","i","s","s","i","n","g"," ","e","n","t","r","y"," ","p","o","i","n","t"," ","f","u","n","c","t","i","o","n">>
N_duplicate_custom_error ==
    <<"d","u","p","l","i","c","a","t","e"," ","c","u","s","t","o","m"," ","e","r","r","o","r">>
N_unknown_name ==
    <<"u","n","k","n","o","w","n"," ","n","a","m","e">>
N_type_mismatch ==
    <<"t","y","p","e"," ","m","i","s","m","a","t","c","h">>
N_cannot_assign ==
    <<"c","a","n","n","o","t"," ","a","s","s","i","g","n"," ","t","o"," ","i","m","m","u","t","a","b","l","e"," ","v","a","r","i","a","b","l","e">>
N_wrong_number ==
    <<"w","r","o","n","g"," ","n","u","m","b","e","r"," ","o","f"," ","a","r","g","u","m","e","n","t","s">>
N_try_expects_result ==
    <<"BACKTICK","?","BACKTICK"," ","e","x","p","e","c","t","s"," ","r","e","s","u","l","t">>
N_try_can_only ==
    <<"BACKTICK","?","BACKTICK"," ","c","a","n"," ","o","n","l","y"," ","b","e"," ","u","s","e","d">>
N_variant_pattern ==
    <<"v","a","r","i","a","n","t"," ","p","a","t","t","e","r","n">>
N_requires_enum_target ==
    <<"r","e","q","u","i","r","e","s"," ","e","n","u","m"," ","t","a","r","g","e","t">>
N_unknown_variant ==
    <<"u","n","k","n","o","w","n"," ","v","a","r","i","a","n","t">>
N_ambiguous_variant ==
    <<"a","m","b","i","g","u","o","u","s"," ","v","a","r","i","a","n","t"," ","c","o","n","s","t","r","u","c","t","o","r">>
N_unsupported ==
    <<"u","n","s","u","p","p","o","r","t","e","d">>
N_unknown_custom_error ==
    <<"u","n","k","n","o","w","n"," ","c","u","s","t","o","m"," ","e","r","r","o","r"," ","k","i","n","d">>
N_raise ==
    <<"BACKTICK","r","a","i","s","e","BACKTICK">>
N_use_after_move ==
    <<"u","s","e"," ","a","f","t","e","r"," ","m","o","v","e">>
N_cannot_mutably_borrow ==
    <<"c","a","n","n","o","t"," ","m","u","t","a","b","l","y"," ","b","o","r","r","o","w">>
N_cannot_immutably_borrow ==
    <<"c","a","n","n","o","t"," ","i","m","m","u","t","a","b","l","y"," ","b","o","r","r","o","w">>
N_cannot_borrow_moved ==
    <<"c","a","n","n","o","t"," ","b","o","r","r","o","w"," ","m","o","v","e","d"," ","v","a","l","u","e">>
N_while_mutably_borrowed ==
    <<"w","h","i","l","e"," ","m","u","t","a","b","l","y"," ","b","o","r","r","o","w","e","d">>
N_not_implemented_yet ==
    <<"n","o","t"," ","i","m","p","l","e","m","e","n","t","e","d"," ","y","e","t">>
N_expects_result ==
    <<"e","x","p","e","c","t","s"," ","r","e","s","u","l","t">>

\* _infer_error_code(module, message); module is the raising module's name
InferErrorCode(module, message) ==
    LET lower == Lower(message) IN
    CASE module = "midori_compiler.lexer" ->
           IF Contains(lower, N_invalid_character) THEN "MD1001"
           ELSE IF Contains(lower, N_unterminated_string) THEN "MD1002"
           ELSE IF Contains(lower, N_unterminated_char) THEN "MD1003"
           ELSE IF Contains(lower, N_invalid_char_literal) THEN "MD1004"
           ELSE IF Contains(lower, N_unterminated_block_comment) THEN "MD1005"
           ELSE "MD1000"
      [] module = "midori_compiler.parser" ->
           IF StartsWith(lower, N_expected_) THEN "MD2001" ELSE "MD2000"
      [] module = "midori_typecheck.resolver" ->
           IF Contains(lower, N_duplicate_function) THEN "MD3001"
           ELSE IF Contains(lower, N_duplicate_enum) THEN "MD3002"
           ELSE IF Contains(lower, N_duplicate_enum_variant) THEN "MD3003"
           ELSE IF Contains(lower, N_missing_entry_point) THEN "MD3004"
           ELSE IF Contains(lower, N_duplicate_custom_error) THEN "MD3005"
           ELSE "MD3000"
      [] module = "midori_typecheck.checker" ->
           IF Contains(lower, N_unknown_name) THEN "MD3101"
           ELSE IF Contains(lower, N_type_mismatch) THEN "MD3102"
           ELSE IF Contains(lower, N_cannot_assign) THEN "MD3103"
           ELSE IF Contains(lower, N_wrong_number) THEN "MD3104"
           ELSE IF Contains(lower, N_try_expects_result) THEN "MD3105"
           ELSE IF Contains(lower, N_try_can_only) THEN "MD3106"
           ELSE IF Contains(lower, N_variant_pattern) /\ Contains(lower, N_requires_enum_target)
                THEN "MD3107"
           ELSE IF Contains(lower, N_unknown_variant) THEN "MD3108"
           ELSE IF Contains(lower, N_ambiguous_variant) THEN "MD3109"
           ELSE IF Contains(lower, N_unsupported) THEN "MD3110"
           ELSE IF Contains(lower, N_unknown_custom_error) THEN "MD3111"
           ELSE IF Contains(lower, N_raise) THEN "MD3112"
           ELSE "MD3100"
      [] module = "midori_ir.borrow" ->
           IF Contains(lower, N_use_after_move) THEN "MD4001"
           ELSE IF Contains(lower, N_cannot_mutably_borrow) THEN "MD4002"
           ELSE IF Contains(lower, N_cannot_immutably_borrow) THEN "MD4003"
           ELSE IF Contains(lower, N_cannot_borrow_moved) THEN "MD4004"
           ELSE IF Contains(lower, N_while_mutably_borrowed) THEN "MD4005"
           ELSE "MD4000"
      [] module = "midori_ir.lowering" ->
           IF Contains(lower, N_not_implemented_yet) THEN "MD5001"
           ELSE IF Contains(lower, N_expects_result) THEN "MD5002"
           ELSE "MD5000"
      [] module = "midori_codegen_llvm.codegen" -> "MD6000"
      [] module = "midori_cli.pipeline" -> "MD7000"
      [] OTHER -> "MD0001"

\* the diagnostic of a pass: no message, no diagnostic
NoMsg == <<>>
CodeOf(module, msg) == IF msg = NoMsg THEN "none" ELSE InferErrorCode(module, msg)

(***************************************************************************)
(* types.py: Type(name, args).                                             *)
(***************************************************************************)
TN_Int ==
    <<"I","n","t">>
TN_Float ==
    <<"F","l","o","a","t">>
TN_Bool ==
    <<"B","o","o","l">>
TN_Char ==
    <<"C","h","a","r">>
TN_String ==
    <<"S","t","r","i","n","g">>
TN_Void ==
    <<"V","o","i","d">>
TN_Unknown ==
    <<"U","n","k","n","o","w","n">>
TN_Result ==
    <<"R","e","s","u","l","t">>
TN_Option ==
    <<"O","p","t","i","o","n">>
TN_Ref ==
    <<"R","e","f">>
TN_Ptr ==
    <<"P","t","r">>
TN_Range ==
    <<"R","a","n","g","e">>

Type(name, args) == [name |-> name, args |-> args]

INT == Type(TN_Int, <<>>)
FLOAT == Type(TN_Float, <<>>)
BOOL == Type(TN_Bool, <<>>)
CHAR == Type(TN_Char, <<>>)
STRING_TY == Type(TN_String, <<>>)
VOID == Type(TN_Void, <<>>)
UNKNOWN == Type(TN_Unknown, <<>>)

result_type(ok, err) == Type(TN_Result, <<ok, err>>)
option_type(inner) == Type(TN_Option, <<inner>>)

\* Type.is_copy
is_copy(ty) == ty.name \in {TN_Int, TN_Float, TN_Bool, TN_Char}

RECURSIVE TypeStr(_)
RECURSIVE JoinTypes(_)
\* ", ".join(str(a) for a in args)
JoinTypes(args) ==
    IF args = <<>> THEN <<>>
    ELSE IF Len(args) = 1 THEN TypeStr(args[1])
    ELSE TypeStr(args[1]) \o <<",", " ">> \o JoinTypes(Tail(args))
\* Type.__str__
TypeStr(ty) ==
    IF ty.args = <<>> THEN ty.name
    ELSE ty.name \o <<"[">> \o JoinTypes(ty.args) \o <<"]">>

(***************************************************************************)
(* The messages of the type checker and of the lowering, and the names     *)
(* used by the programs that are checked.                                  *)
(***************************************************************************)
M_type_mismatch_expected ==
    <<"t","y","p","e"," ","m","i","s","m","a","t","c","h",":"," ","e","x","p","e","c","t","e","d"," ">>
M_got ==
    <<","," ","g","o","t"," ">>
M_try_expects ==
    <<"BACKTICK","?","BACKTICK"," ","e","x","p","e","c","t","s"," ","R","e","s","u","l","t","[","T",","," ","E","]">>
M_try_can_only ==
    <<"BACKTICK","?","BACKTICK"," ","c","a","n"," ","o","n","l","y"," ","b","e"," ","u","s","e","d"," ","i","n"," ","f","u","n","c","t","i","o","n","s"," ","r","e","t","u","r","n","i","n","g"," ","R","e","s","u","l","t","[","T",","," ","E","]">>
M_raise_can_only ==
    <<"BACKTICK","r","a","i","s","e","BACKTICK"," ","c","a","n"," ","o","n","l","y"," ","b","e"," ","u","s","e","d"," ","i","n"," ","f","u","n","c","t","i","o","n","s"," ","r","e","t","u","r","n","i","n","g"," ","R","e","s","u","l","t","[","T",","," ","S","t","r","i","n","g","]">>
M_if_branches ==
    <<"i","f"," ","b","r","a","n","c","h","e","s"," ","t","y","p","e"," ","m","i","s","m","a","t","c","h",":"," ">>
M_vs ==
    <<" ","v","s"," ">>
M_non_exhaustive ==
    <<"n","o","n","-","e","x","h","a","u","s","t","i","v","e"," ","m","a","t","c","h"," ","o","v","e","r"," ","t","y","p","e"," ">>
M_empty_match ==
    <<"e","m","p","t","y"," ","m","a","t","c","h"," ","e","x","p","r","e","s","s","i","o","n">>
M_variant_pattern ==
    <<"v","a","r","i","a","n","t"," ","p","a","t","t","e","r","n"," ","'">>
M_requires_enum ==
    <<"'"," ","r","e","q","u","i","r","e","s"," ","e","n","u","m"," ","t","a","r","g","e","t",","," ","g","o","t"," ">>
M_unknown_variant ==
    <<"u","n","k","n","o","w","n"," ","v","a","r","i","a","n","t"," ","'">>
M_for_enum ==
    <<"'"," ","f","o","r"," ","e","n","u","m"," ","'">>
M_variant ==
    <<"v","a","r","i","a","n","t"," ","'">>
M_expects ==
    <<"'"," ","e","x","p","e","c","t","s"," ">>
M_bindings_got ==
    <<" ","b","i","n","d","i","n","g","s",","," ","g","o","t"," ">>
M_carries ==
    <<"'"," ","c","a","r","r","i","e","s"," ","p","a","y","l","o","a","d",";"," ","u","s","e"," ","'">>
M_pattern ==
    <<"(",".",".",".",")","'"," ","p","a","t","t","e","r","n">>
M_unsupported_lowering ==
    <<"u","n","s","u","p","p","o","r","t","e","d"," ","e","x","p","r","e","s","s","i","o","n"," ","i","n"," ","l","o","w","e","r","i","n","g",":"," ","R","a","i","s","e","E","x","p","r">>
TN_Op ==
    <<"O","p">>
TN_UnsupportedOp ==
    <<"U","n","s","u","p","p","o","r","t","e","d","O","p">>
TN_Never ==
    <<"N","e","v","e","r">>
V_Add ==
    <<"A","d","d">>
V_Neg ==
    <<"N","e","g">>
V_Some ==
    <<"S","o","m","e">>
V_None ==
    <<"N","o","n","e">>
V_Ok ==
    <<"O","k">>
V_Err ==
    <<"E","r","r">>
V_n ==
    <<"n">>
L_true ==
    <<"t","r","u","e">>
L_false ==
    <<"f","a","l","s","e">>
L_one ==
    <<"1">>
L_str ==
    <<"\"","a","\"">>
L_chr ==
    <<"'","a","'">>
L_flt ==
    <<"1",".","5">>
M_quote ==
    <<"'">>
M_lowering_expects ==
    <<"BACKTICK","?","BACKTICK"," ","l","o","w","e","r","i","n","g"," ","e","x","p","e","c","t","s"," ","R","e","s","u","l","t","[","T",","," ","E","]">>
M_missing_enum_key ==
    <<"m","i","s","s","i","n","g"," ","e","n","u","m"," ","k","e","y"," ","f","o","r"," ">>

(***************************************************************************)
(* checker.py: the helpers of the type checker.                            *)
(***************************************************************************)
CheckerModule == "midori_typecheck.checker"

\* str(n) for the small numbers that occur
Digits == <<"0","1","2","3","4","5","6","7","8","9">>
IsDigit(c) == \E i \in 1..Len(Digits) : Digits[i] = c
NatStr(n) == <<Digits[n + 1]>>

\* _ensure_assignable: the message raised, if any
EnsureAssignable(expected, actual) ==
    IF expected = actual THEN NoMsg
    ELSE IF /\ expected.name = actual.name
            /\ Len(expected.args) = Len(actual.args)
            /\ \A i \in 1..Len(expected.args) :
                  \/ expected.args[i].name = TN_Unknown
                  \/ actual.args[i].name = TN_Unknown
                  \/ expected.args[i] = actual.args[i]
    THEN NoMsg
    ELSE IF expected.name = TN_Unknown \/ actual.name = TN_Unknown THEN NoMsg
    ELSE M_type_mismatch_expected \o TypeStr(expected) \o M_got \o TypeStr(actual)

RECURSIVE CoerceUnknownType(_, _)
\* _coerce_unknown_type
CoerceUnknownType(expected, actual) ==
    IF expected.name = actual.name /\ Len(expected.args) = Len(actual.args)
    THEN Type(expected.name,
              [i \in 1..Len(expected.args) |->
                  IF actual.args[i].name = TN_Unknown THEN expected.args[i]
                  ELSE IF expected.args[i].name = TN_Unknown THEN actual.args[i]
                  ELSE CoerceUnknownType(expected.args[i], actual.args[i])])
    ELSE IF actual.name = TN_Unknown THEN expected
    ELSE actual

Typed(ty, msg) == [ty |-> ty, msg |-> msg]

\* _merge_branch_types
MergeBranchTypes(left, right) ==
    IF left = right THEN Typed(left, NoMsg)
    ELSE IF EnsureAssignable(left, right) = NoMsg
    THEN Typed(CoerceUnknownType(left, right), NoMsg)
    ELSE IF EnsureAssignable(right, left) = NoMsg
    THEN Typed(CoerceUnknownType(right, left), NoMsg)
    ELSE Typed(VOID, M_if_branches \o TypeStr(left) \o M_vs \o TypeStr(right))

\* InferPostfixTry with the two Result checks in the other order
InferPostfixTryReturnFirst(inner, fn_ret) ==
    IF fn_ret.name # TN_Result \/ Len(fn_ret.args) # 2
    THEN Typed(VOID, M_try_can_only)
    ELSE IF inner.name # TN_Result \/ Len(inner.args) # 2
    THEN Typed(VOID, M_try_expects)
    ELSE IF EnsureAssignable(fn_ret.args[2], inner.args[2]) # NoMsg
    THEN Typed(VOID, EnsureAssignable(fn_ret.args[2], inner.args[2]))
    ELSE Typed(inner.args[1], NoMsg)

\* infer on a PostfixTryExpr whose operand has the type inner, in a function
\* that returns fn_ret
InferPostfixTry(inner, fn_ret) ==
    IF inner.name # TN_Result \/ Len(inner.args) # 2
    THEN Typed(VOID, M_try_expects)
    ELSE IF fn_ret.name # TN_Result \/ Len(fn_ret.args) # 2
    THEN Typed(VOID, M_try_can_only)
    ELSE IF EnsureAssignable(fn_ret.args[2], inner.args[2]) # NoMsg
    THEN Typed(VOID, EnsureAssignable(fn_ret.args[2], inner.args[2]))
    ELSE Typed(inner.args[1], NoMsg)

\* EnumVariantInfo
EnumVariantInfo(index, field_types) == [index |-> index, field_types |-> field_types]
NoVariants == [v \in {} |-> EnumVariantInfo(0, <<>>)]

\* Optional dict of variants: None or a dict
NoneVariants == [isnone |-> TRUE, variants |-> NoVariants]
SomeVariants(vs) == [isnone |-> FALSE, variants |-> vs]

\* _enum_variants_for_type
EnumVariantsForType(ty, enums) ==
    IF ty.name \in DOMAIN enums THEN SomeVariants(enums[ty.name])
    ELSE IF ty.name = TN_Option /\ Len(ty.args) = 1
    THEN SomeVariants((V_Some :> EnumVariantInfo(0, <<ty.args[1]>>))
                      @@ (V_None :> EnumVariantInfo(1, <<>>)))
    ELSE IF ty.name = TN_Result /\ Len(ty.args) = 2
    THEN SomeVariants((V_Ok :> EnumVariantInfo(0, <<ty.args[1]>>))
                      @@ (V_Err :> EnumVariantInfo(1, <<ty.args[2]>>)))
    ELSE NoneVariants

\* str.isdigit() on ASCII text
IsDigits(val) == val # <<>> /\ \A i \in 1..Len(val) : IsDigit(val[i])

\* val.replace(".", "", 1)
DropFirstDot(val) ==
    IF \E i \in 1..Len(val) : val[i] = "."
    THEN LET i == CHOOSE j \in 1..Len(val) : val[j] = "." /\ \A k \in 1..(j - 1) : val[k] # "."
         IN  SubSeq(val, 1, i - 1) \o SubSeq(val, i + 1, Len(val))
    ELSE val

\* _literal_pattern_type
LiteralPatternType(val) ==
    IF val \in {L_true, L_false} THEN BOOL
    ELSE IF val # <<>> /\ val[1] = "\"" /\ val[Len(val)] = "\"" THEN STRING_TY
    ELSE IF val # <<>> /\ val[1] = "'" /\ val[Len(val)] = "'" THEN CHAR
    ELSE IF (\E i \in 1..Len(val) : val[i] = ".") /\ IsDigits(DropFirstDot(val)) THEN FLOAT
    ELSE IF IsDigits(val) THEN INT
    ELSE UNKNOWN

\* a pattern of a match arm: WildcardPattern, LiteralPattern(value),
\* NamePattern(name), VariantPattern(name, fields) with nfields bindings
WildcardPattern == [k |-> "wild", name |-> <<>>, value |-> <<>>, nfields |-> 0]
LiteralPattern(value) == [k |-> "lit", name |-> <<>>, value |-> value, nfields |-> 0]
NamePattern(name) == [k |-> "name", name |-> name, value |-> <<>>, nfields |-> 0]
VariantPattern(name, nfields) == [k |-> "variant", name |-> name, value |-> <<>>, nfields |-> nfields]

\* _PatternResult, with the message check_pattern raises instead, if any
PatternResult(kind, variant_name, literal_value, msg) ==
    [kind |-> kind, variant_name |-> variant_name, literal_value |-> literal_value, msg |-> msg]

\* check_pattern (the bindings it adds to vars_map are not modelled here)
CheckPattern(pattern, target_ty, enums) ==
    LET enum_variants == EnumVariantsForType(target_ty, enums)
        vs == enum_variants.variants
    IN
    IF pattern.k = "wild" THEN PatternResult("wildcard", <<>>, <<>>, NoMsg)
    ELSE IF pattern.k = "lit"
    THEN PatternResult("literal", <<>>, pattern.value,
                       EnsureAssignable(target_ty, LiteralPatternType(pattern.value)))
    ELSE IF pattern.k = "variant"
    THEN IF enum_variants.isnone
         THEN PatternResult("", <<>>, <<>>,
                  M_variant_pattern \o pattern.name \o M_requires_enum \o TypeStr(target_ty))
         ELSE IF pattern.name \notin DOMAIN vs
         THEN PatternResult("", <<>>, <<>>,
                  M_unknown_variant \o pattern.name \o M_for_enum \o target_ty.name \o M_quote)
         ELSE IF pattern.nfields # Len(vs[pattern.name].field_types)
         THEN PatternResult("", <<>>, <<>>,
                  M_variant \o pattern.name \o M_expects
                  \o NatStr(Len(vs[pattern.name].field_types))
                  \o M_bindings_got \o NatStr(pattern.nfields))
         ELSE PatternResult("variant", pattern.name, <<>>, NoMsg)
    ELSE IF ~enum_variants.isnone /\ pattern.name \in DOMAIN vs
    THEN IF vs[pattern.name].field_types # <<>>
         THEN PatternResult("", <<>>, <<>>,
                  M_variant \o pattern.name \o M_carries \o pattern.name \o M_pattern)
         ELSE PatternResult("variant", pattern.name, <<>>, NoMsg)
    ELSE PatternResult("binding", <<>>, <<>>, NoMsg)

\* _is_exhaustive_match
IsExhaustiveMatch(target_ty, saw_catch_all, seen_variants, seen_bool_literals, enums) ==
    IF saw_catch_all THEN TRUE
    ELSE IF target_ty = BOOL THEN seen_bool_literals = {L_true, L_false}
    ELSE LET enum_variants == EnumVariantsForType(target_ty, enums) IN
         IF ~enum_variants.isnone /\ DOMAIN enum_variants.variants # {}
         THEN DOMAIN enum_variants.variants \subseteq seen_variants
         ELSE FALSE

\* a match arm as infer sees it: its pattern and the type infer gives its
\* expression
MatchArm(pattern, ty) == [pattern |-> pattern, ty |-> ty]

\* the first index of seq that satisfies nothing before it: 0 if none
FirstIndex(S) == IF S = {} THEN 0 ELSE CHOOSE i \in S : \A j \in S : i <= j

\* infer on a MatchExpr whose target has the type target_ty
InferMatch(target_ty, arms, enums) ==
    LET pats == [i \in 1..Len(arms) |-> CheckPattern(arms[i].pattern, target_ty, enums)]
        bad == FirstIndex({i \in 1..Len(arms) : pats[i].msg # NoMsg})
        seen_variants == {pats[i].variant_name : i \in {j \in 1..Len(arms) : pats[j].kind = "variant"}}
        seen_bool_literals ==
            {pats[i].literal_value :
                i \in {j \in 1..Len(arms) :
                          pats[j].kind = "literal" /\ pats[j].literal_value \in {L_true, L_false}}}
        saw_catch_all == \E i \in 1..Len(arms) : pats[i].kind \in {"wildcard", "binding"}
        arm_ty == arms[1].ty
        clash == FirstIndex({i \in 2..Len(arms) : EnsureAssignable(arm_ty, arms[i].ty) # NoMsg})
    IN
    IF arms = <<>> THEN Typed(VOID, M_empty_match)
    ELSE IF bad # 0 THEN Typed(VOID, pats[bad].msg)
    ELSE IF clash # 0 THEN Typed(VOID, EnsureAssignable(arm_ty, arms[clash].ty))
    ELSE IF ~IsExhaustiveMatch(target_ty, saw_catch_all, seen_variants, seen_bool_literals, enums)
    THEN Typed(VOID, M_non_exhaustive \o TypeStr(target_ty))
    ELSE Typed(arm_ty, NoMsg)

(***************************************************************************)
(* The state of the type checker's infer, tried on one expression: cin is  *)
(* the expression given to it, cout the type it returns or the code of the *)
(* diagnostic it raises.                                                   *)
(***************************************************************************)
VARIABLES cin, cout

cvars == <<cin, cout>>

(***************************************************************************)
(* The state of check_program followed by lower_typed_program on one       *)
(* function: its declared return type, the type checker's tables (chk),    *)
(* the _Builder, the constructs that are open (lstack), where the run is   *)
(* (lpc), the code of the diagnostic the type checker (cerr) and the       *)
(* lowering (lerr) raised, and the number of steps taken (lsize).          *)
(***************************************************************************)
VARIABLES fn_return_type, chk, builder, lstack, lpc, cerr, lerr, lsize

lvars == <<fn_return_type, chk, builder, lstack, lpc, cerr, lerr, lsize>>

(***************************************************************************)
(* The state of lower_typed_program on a whole program: the TypedProgram   *)
(* it is given (typed), the set of enum keys it has collected (enum_keys), *)
(* the dict of layouts in insertion order (enum_layouts), how often        *)
(* _layout_for_enum_key was called per key (layout_calls), the names of    *)
(* the functions lowered so far (functions_ir), the index of the function  *)
(* the current loop is at (fn_index), where the run is (ypc), and what the *)
(* runs made so far on this program returned (irs).                        *)
(***************************************************************************)
VARIABLES typed, enum_keys, enum_layouts, layout_calls, functions_ir, fn_index, ypc, irs

yvars == <<typed, enum_keys, enum_layouts, layout_calls, functions_ir, fn_index, ypc, irs>>

(***************************************************************************)
(* The state of Lexer.tokenize: the Lexer object (source, pos, line, col), *)
(* the list out of tokens, where the call is (lexpc) and the exception it  *)
(* raised (lex_error).                                                     *)
(***************************************************************************)
VARIABLES lexer, tokens, lexpc, lex_error

xvars == <<lexer, tokens, lexpc, lex_error>>

(***************************************************************************)
(* The state of resolve_names: the items of the program, the index of the  *)
(* item the loop is at, the dicts built so far (resolution), where the     *)
(* call is (rpc) and the diagnostic it raised (resolve_error).             *)
(***************************************************************************)
VARIABLES program, item_index, resolution, rpc, resolve_error

rvars == <<program, item_index, resolution, rpc, resolve_error>>

(***************************************************************************)
(* The state of _load_program: what _parse_file gives for every file       *)
(* (files), the keys of the dict parsed, the lists ordered_sources,        *)
(* merged_items and visiting, the calls of visit that are running, each    *)
(* with the index of the item its first loop is at (frames), how often     *)
(* _parse_file was called per file (parse_calls), where the call is        *)
(* (loadpc) and the message of the MidoriError it raised (load_error).     *)
(***************************************************************************)
VARIABLES files, parsed, ordered_sources, merged_items, visiting
VARIABLES frames, parse_calls, loadpc, load_error

ivars == <<files, parsed, ordered_sources, merged_items, visiting, frames, parse_calls,
           loadpc, load_error>>

(***************************************************************************)
(* The state of a MidoriTerminal: its three fields, and of the last        *)
(* execute_line call the line (term_line), the branch taken (term_branch), *)
(* the source given to _check_source and what it returned, if it was       *)
(* called (term_source, term_check), the pair returned (term_status), and  *)
(* the number of calls made (term_calls).                                  *)
(***************************************************************************)
VARIABLES session_declarations, pending_declaration, pending_brace_depth
VARIABLES term_line, term_branch, term_source, term_check, term_status, term_calls

tvars == <<session_declarations, pending_declaration, pending_brace_depth,
           term_line, term_branch, term_source, term_check, term_status, term_calls>>

(***************************************************************************)
(* The state of a _Builder that lowers the statements of a function body   *)
(* one after the other: its dict env, the constructs it is inside, each    *)
(* with the copy of env it took (env_frames), and the statement or         *)
(* expression it lowered last (env_last).  Its blocks and counters are the *)
(* variable builder.                                                       *)
(***************************************************************************)
VARIABLES env, env_frames, env_last

evars == <<env, env_frames, env_last>>

(***************************************************************************)
(* The state of Parser._parse_block on the tokens of one block: the tokens *)
(* and the index of the current one, the statements and the tail collected *)
(* so far, and where the call is (parsepc).                                *)
(***************************************************************************)
VARIABLES block_tokens, block_pos, block_statements, block_tail, parsepc

pvars == <<block_tokens, block_pos, block_statements, block_tail, parsepc>>

\* the data of the other passes, per pass that leaves them alone
NotBorrowCheckLower == <<yvars, xvars, rvars, ivars, tvars, evars, pvars>>
NotLayout == <<xvars, rvars, ivars, tvars, evars, pvars>>
NotLex == <<yvars, rvars, ivars, tvars, evars, pvars>>
NotResolve == <<yvars, xvars, ivars, tvars, evars, pvars>>
NotLoad == <<yvars, xvars, rvars, tvars, evars, pvars>>
NotTerminal == <<yvars, xvars, rvars, ivars, evars, pvars>>
NotEnv == <<yvars, xvars, rvars, ivars, tvars, pvars>>
NotParse == <<yvars, xvars, rvars, ivars, tvars, evars>>

(***************************************************************************)
(* borrow.py.  The borrow checker walks one function body.  `states` is    *)
(* the dict the running activation works on, `bstack` the activations of   *)
(* _check_block and of the if/match cases of _visit_expr that are open,    *)
(* innermost last.  `bscope` is the type checker's scope at the program    *)
(* point reached (checker.py vars_map: which binding each name denotes and *)
(* its type, which is what expr_types records for an identifier), extended *)
(* with what has happened to each binding; `bev` describes the last step,  *)
(* `bsize` counts the expressions visited so far.                          *)
(***************************************************************************)
VARIABLES states, bstack, bscope, bev, berr, bsize

bvars == <<states, bstack, bscope, bev, berr, bsize>>

MaxDepth == 3      \* open activations
MaxOps == 2        \* release_ops entries per block
MaxBorrows == 2    \* imm_borrows
MaxArms == 2       \* arms per match
MaxSize == 3       \* expressions visited in the function

BorrowModule == "midori_ir.borrow"

\* _State(); the field ty is stored and copied but never read by borrow.py
NewState == [moved |-> FALSE, imm_borrows |-> 0, mut_borrow |-> FALSE]

\* d[k] = v
Put(d, k, v) == [x \in (DOMAIN d) \cup {k} |-> IF x = k THEN v ELSE d[x]]
\* d.pop(k, None)
Drop(d, k) == [x \in (DOMAIN d) \ {k} |-> d[x]]
EmptyDict == [x \in {} |-> NewState]

MaxOf(S) == CHOOSE m \in S : \A n \in S : n <= m

M_use_after_move_of ==
    <<"u","s","e"," ","a","f","t","e","r"," ","m","o","v","e"," ","o","f"," ","'">>
M_cannot_use ==
    <<"c","a","n","n","o","t"," ","u","s","e"," ","'">>
M_while_mutably_borrowed ==
    <<"'"," ","w","h","i","l","e"," ","m","u","t","a","b","l","y"," ","b","o","r","r","o","w","e","d">>
M_cannot_borrow_moved_value ==
    <<"c","a","n","n","o","t"," ","b","o","r","r","o","w"," ","m","o","v","e","d"," ","v","a","l","u","e"," ","'">>
M_cannot_immutably_borrow ==
    <<"c","a","n","n","o","t"," ","i","m","m","u","t","a","b","l","y"," ","b","o","r","r","o","w"," ","'">>
M_cannot_mutably_borrow ==
    <<"c","a","n","n","o","t"," ","m","u","t","a","b","l","y"," ","b","o","r","r","o","w"," ","'">>
M_while_already_borrowed ==
    <<"'"," ","w","h","i","l","e"," ","a","l","r","e","a","d","y"," ","b","o","r","r","o","w","e","d">>

\* the local names of the function: fn.local_types and the parameters
LocalNames == {"s", "t"}
\* a name bound only by a match pattern (never in fn.local_types)
PatternNames == {"n"}
\* the names the body's expressions mention; t is only declared
UsedNames == {"s"} \cup PatternNames
\* types of the parameter s
OPT_STRING == option_type(STRING_TY)
ValueTypes == {INT, STRING_TY, OPT_STRING}

\* the expressions a step visits: an Int literal, the identifier `name`, a
\* borrow `&name` / `&mut name`, or a call f(name) with a bare identifier
\* argument, where fn f(..) -> Bool
Leaf(k, op, name) == [k |-> k, op |-> op, name |-> name]
LitLeaf == Leaf("lit", "", "")
LeavesOver(names) ==
    {LitLeaf}
    \cup {Leaf("ident", "", n) : n \in names \cap UsedNames}
    \cup {Leaf("borrow", op, n) : op \in {"&", "&mut"}, n \in names \cap UsedNames}
    \cup {Leaf("call", "", n) : n \in names \cap UsedNames}

\* run_borrow_check: every local and parameter starts with a fresh _State
InitStates == [n \in LocalNames |-> NewState]

\* _clone_states
CloneStates(st) ==
    [n \in DOMAIN st |->
        [moved |-> st[n].moved, imm_borrows |-> st[n].imm_borrows,
         mut_borrow |-> st[n].mut_borrow]]

\* _merge_branch_states: the dict after the merge (states and base hold the
\* same names when it is called)
MergeBranchStates(base, branches) ==
    [n \in DOMAIN base |->
        LET bs == {i \in 1..Len(branches) : n \in DOMAIN branches[i]} IN
        [moved |-> base[n].moved \/ \E i \in bs : branches[i][n].moved,
         imm_borrows |->
            MaxOf({base[n].imm_borrows} \cup {branches[i][n].imm_borrows : i \in bs}),
         mut_borrow |-> base[n].mut_borrow \/ \E i \in bs : branches[i][n].mut_borrow]]

\* _visit_expr on an IdentifierExpr: the message raised, if any
VisitIdentifier(st, name) ==
    IF name \in DOMAIN st /\ st[name].moved
    THEN M_use_after_move_of \o <<name>> \o M_quote
    ELSE IF name \in DOMAIN st /\ st[name].mut_borrow
    THEN M_cannot_use \o <<name>> \o M_while_mutably_borrowed
    ELSE NoMsg

Visited(st, ops, msg) == [st |-> st, ops |-> ops, msg |-> msg]

\* _visit_expr on UnaryExpr & / &mut whose operand is an identifier
VisitBorrow(st, op, name) ==
    IF name \notin DOMAIN st THEN Visited(st, <<>>, NoMsg)
    ELSE IF st[name].moved
    THEN Visited(st, <<>>, M_cannot_borrow_moved_value \o <<name>> \o M_quote)
    ELSE IF op = "&"
    THEN IF st[name].mut_borrow
         THEN Visited(st, <<>>,
                      M_cannot_immutably_borrow \o <<name>> \o M_while_mutably_borrowed)
         ELSE Visited([st EXCEPT ![name].imm_borrows = @ + 1], <<<<name, "imm">>>>, NoMsg)
    ELSE IF st[name].mut_borrow \/ st[name].imm_borrows > 0
    THEN Visited(st, <<>>, M_cannot_mutably_borrow \o <<name>> \o M_while_already_borrowed)
    ELSE Visited([st EXCEPT ![name].mut_borrow = TRUE], <<<<name, "mut">>>>, NoMsg)

\* _children of a CallExpr f(name): the callee identifier, then the argument;
\* both are visited as identifiers and nothing else happens to them
VisitCall(st, name) ==
    LET callee == VisitIdentifier(st, "f") IN
    IF callee # NoMsg THEN Visited(st, <<>>, callee)
    ELSE Visited(st, <<>>, VisitIdentifier(st, name))

\* _visit_expr
VisitExpr(leaf, st) ==
    CASE leaf.k = "ident" -> Visited(st, <<>>, VisitIdentifier(st, leaf.name))
      [] leaf.k = "borrow" -> VisitBorrow(st, leaf.op, leaf.name)
      [] leaf.k = "call" -> VisitCall(st, leaf.name)
      [] OTHER -> Visited(st, <<>>, NoMsg)

RECURSIVE ApplyRelease(_, _)
\* _check_block, the loop over release_ops
ApplyRelease(st, ops) ==
    IF ops = <<>> THEN st
    ELSE LET name == Head(ops)[1]
             kind == Head(ops)[2]
         IN  IF name \notin DOMAIN st THEN ApplyRelease(st, Tail(ops))
             ELSE IF kind = "imm"
             THEN ApplyRelease(
                    [st EXCEPT ![name].imm_borrows = MaxOf({0, st[name].imm_borrows - 1})],
                    Tail(ops))
             ELSE ApplyRelease([st EXCEPT ![name].mut_borrow = FALSE], Tail(ops))

\* shadowed.get(name): [has |-> FALSE] stands for None
NoneOpt == [has |-> FALSE, st |-> NewState]
SomeOpt(s) == [has |-> TRUE, st |-> s]

\* _check_block, the loop over locals_defined
RestoreLocals(st, shadowed, locals_defined) ==
    LET popped == {n \in locals_defined : ~shadowed[n].has} IN
    [n \in (DOMAIN st) \ popped |->
        IF n \in locals_defined THEN shadowed[n].st ELSE st[n]]

\* the states dict as _check_block leaves it
ExitBlock(st, frame) ==
    RestoreLocals(ApplyRelease(st, frame.release_ops), frame.shadowed, frame.locals_defined)

\* _bind_pattern_names
BindPatternNames(pattern, st, target_ty) ==
    IF pattern.k = "name"
    THEN IF target_ty.name \notin {TN_Result, TN_Option} /\ IsUpperChar(target_ty.name[1])
         THEN st
         ELSE Put(st, pattern.name, NewState)
    ELSE IF pattern.k = "variant"
    THEN Put(st, pattern.name, NewState)
    ELSE st

\* a match pattern: `_`, a NamePattern `name`, or a VariantPattern Some(name);
\* Some(s) binds the name of the parameter anew
Pattern(k, name) == [k |-> k, name |-> name]
Patterns ==
    {Pattern("wild", "")}
    \cup {Pattern("name", n) : n \in PatternNames}
    \cup {Pattern("variant", n) : n \in PatternNames \cup {"s"}}

\* check_pattern accepts a VariantPattern only on an enum target
PatternTypeChecks(pattern, target_ty) ==
    pattern.k = "variant" => target_ty.name = TN_Option

\* a binding of the type checker's scope and what the program did with it:
\* moved / copied: it was the bare initializer of a let, with a non-copy / copy
\* type; passed: it was a bare call argument, with a non-copy type
GBinding(ty) == [ty |-> ty, moved |-> FALSE, passed |-> FALSE, copied |-> FALSE]

\* check_pattern: the bindings a pattern adds to vars_map
ScopeWithPattern(scope, pattern, target_ty) ==
    IF pattern.k = "name" THEN Put(scope, pattern.name, GBinding(target_ty))
    ELSE IF pattern.k = "variant" THEN Put(scope, pattern.name, GBinding(target_ty.args[1]))
    ELSE scope

PatternBound(pattern) == IF pattern.k = "wild" THEN {} ELSE {pattern.name}

\* the scope after an if/match: the bindings of the entry scope, with what any
\* branch did to them
ScopeMerge(gbase, gbranches) ==
    [n \in DOMAIN gbase |->
        [ty |-> gbase[n].ty,
         moved |-> gbase[n].moved \/ \E i \in 1..Len(gbranches) : gbranches[i][n].moved,
         passed |-> gbase[n].passed \/ \E i \in 1..Len(gbranches) : gbranches[i][n].passed,
         copied |-> gbase[n].copied \/ \E i \in 1..Len(gbranches) : gbranches[i][n].copied]]

\* the entry scope's bindings as a branch leaves them; a name the branch bound
\* anew (pattern names) denotes the entry binding again
ScopeLeave(gbase, gend, bound) ==
    [n \in DOMAIN gbase |-> IF n \in bound THEN gbase[n] ELSE gend[n]]

\* an activation.  k = "block": _check_block with its release_ops, shadowed and
\* locals_defined; k = "if" / "match": the IfExpr / MatchExpr case of _visit_expr
\* with base and the branch states collected so far.  entry, gimm, gmut,
\* gshadowed, gbase, gbranches and gbound record the scope side.
BFrame(k, phase, base, target_ty, entry, gbase) ==
    [k |-> k, phase |-> phase, release_ops |-> <<>>, shadowed |-> <<>>,
     locals_defined |-> {}, base |-> base, branches |-> <<>>, target_ty |-> target_ty,
     entry |-> entry, gimm |-> {}, gmut |-> {}, gshadowed |-> <<>>, gbase |-> gbase,
     gbranches |-> <<>>, gbound |-> {}]

BlockFrame(entry) == BFrame("block", "", <<>>, VOID, entry, <<>>)
IfFrame(base, gbase) == BFrame("if", "then", base, VOID, <<>>, gbase)
MatchFrame(base, target_ty, gbase) == BFrame("match", "arms", base, target_ty, <<>>, gbase)

BTop == bstack[Len(bstack)]
BRest == SubSeq(bstack, 1, Len(bstack) - 1)
SetTop(stack, f) == [stack EXCEPT ![Len(stack)] = f]

\* what the last step did
BEvent(kind, leaf, entry, exit) ==
    LET known == leaf.name \in DOMAIN bscope
        inblock == bstack # <<>> /\ BTop.k = "block"
    IN  [kind |-> kind, op |-> leaf.op, name |-> leaf.name,
         gmoved |-> known /\ bscope[leaf.name].moved,
         gpassed |-> known /\ bscope[leaf.name].passed,
         gcopied |-> known /\ bscope[leaf.name].copied,
         pimm |-> inblock /\ leaf.name \in BTop.gimm,
         pmut |-> inblock /\ leaf.name \in BTop.gmut,
         entry |-> entry, exit |-> exit]

LeafEvent(leaf) ==
    BEvent(CASE leaf.k \in {"ident", "call"} -> "read"
             [] leaf.k = "borrow" -> "borrow"
             [] OTHER -> "lit",
           leaf, <<>>, <<>>)

\* the bounds of the model
WithinCaps(st, frame) ==
    /\ \A n \in DOMAIN st : st[n].imm_borrows <= MaxBorrows
    /\ Len(frame.release_ops) <= MaxOps

\* expr_types of a leaf, as the type checker's infer records it
LeafType(scope, leaf) ==
    CASE leaf.k = "ident" -> scope[leaf.name].ty
      [] leaf.k = "borrow" -> Type(TN_Ref, <<scope[leaf.name].ty>>)
      [] leaf.k = "call" -> BOOL
      [] OTHER -> INT

\* the scope side of visiting a leaf
ScopeVisit(scope, leaf) ==
    IF leaf.k = "call" /\ ~is_copy(scope[leaf.name].ty)
    THEN [scope EXCEPT ![leaf.name].passed = TRUE]
    ELSE scope

\* the activation after a leaf was visited in it: a block appends to its
\* release_ops; the else / arm expression of an if / match gets a fresh list
\* that is dropped
FrameVisit(frame, leaf, ops) ==
    IF frame.k # "block" THEN frame
    ELSE [frame EXCEPT
            !.release_ops = @ \o ops,
            !.gimm = IF leaf.k = "borrow" /\ leaf.op = "&" THEN @ \cup {leaf.name} ELSE @,
            !.gmut = IF leaf.k = "borrow" /\ leaf.op = "&mut" THEN @ \cup {leaf.name} ELSE @]

\* _check_block, `states[stmt.name] = _State(...)` with shadowed and
\* locals_defined, and the same for the scope
FrameLet(frame, st, scope, dst) ==
    [frame EXCEPT
        !.shadowed = IF dst \in DOMAIN @ THEN @
                     ELSE Put(@, dst, IF dst \in DOMAIN st THEN SomeOpt(st[dst]) ELSE NoneOpt),
        !.locals_defined = @ \cup {dst},
        !.gshadowed = IF dst \in DOMAIN @ THEN @
                      ELSE Put(@, dst, IF dst \in DOMAIN scope
                                       THEN [has |-> TRUE, g |-> scope[dst]]
                                       ELSE [has |-> FALSE, g |-> GBinding(VOID)]),
        !.gimm = @ \ {dst},
        !.gmut = @ \ {dst}]

\* the scope when a block ends: the names it declared denote what they did
ScopeExit(scope, frame) ==
    LET gone == {n \in frame.locals_defined : ~frame.gshadowed[n].has} IN
    [n \in (DOMAIN scope) \ gone |->
        IF n \in frame.locals_defined THEN frame.gshadowed[n].g ELSE scope[n]]

BorrowRaise(msg, ev) ==
    /\ berr' = CodeOf(BorrowModule, msg)
    /\ bev' = ev
    /\ UNCHANGED <<states, bstack, bscope, bsize>>

\* the borrow checker leaves the data of the other passes alone
BorrowOnly == UNCHANGED <<cvars, lvars, NotBorrowCheckLower>>

BRunning == berr = "none" /\ bstack # <<>>

\* the function has room for one more expression
CanVisit == BRunning /\ bsize < MaxSize

\* ExprStmt / ReturnStmt / tail of the block: _visit_expr(expr, states, ..., release_ops)
ExprStmt(leaf) ==
    /\ BorrowOnly
    /\ CanVisit /\ BTop.k = "block"
    /\ leaf \in LeavesOver(DOMAIN bscope)
    /\ LET v == VisitExpr(leaf, states)
           f == FrameVisit(BTop, leaf, v.ops)
       IN  IF v.msg # NoMsg THEN BorrowRaise(v.msg, LeafEvent(leaf))
           ELSE /\ WithinCaps(v.st, f)
                /\ states' = v.st
                /\ bstack' = SetTop(bstack, f)
                /\ bscope' = ScopeVisit(bscope, leaf)
                /\ bev' = LeafEvent(leaf)
                /\ berr' = "none"
                /\ bsize' = bsize + 1

\* LetStmt whose initializer is the bare identifier src
LetIdent(dst, src) ==
    /\ BorrowOnly
    /\ CanVisit /\ BTop.k = "block"
    /\ dst \in LocalNames /\ src \in DOMAIN bscope
    /\ LET leaf == Leaf("ident", "", src)
           msg == VisitIdentifier(states, src)
           src_ty == bscope[src].ty
           st1 == IF src \in DOMAIN states /\ ~is_copy(src_ty)
                  THEN [states EXCEPT ![src].moved = TRUE]
                  ELSE states
           g1 == IF is_copy(src_ty)
                 THEN [bscope EXCEPT ![src].copied = TRUE]
                 ELSE [bscope EXCEPT ![src].moved = TRUE]
       IN  IF msg # NoMsg THEN BorrowRaise(msg, LeafEvent(leaf))
           ELSE /\ states' = Put(st1, dst, NewState)
                /\ bstack' = SetTop(bstack, FrameLet(BTop, st1, g1, dst))
                /\ bscope' = Put(g1, dst, GBinding(src_ty))
                /\ bev' = LeafEvent(leaf)
                /\ berr' = "none"
                /\ bsize' = bsize + 1

\* LetStmt with any other initializer (a literal, `&x`, f(x))
LetExpr(dst, leaf) ==
    /\ BorrowOnly
    /\ CanVisit /\ BTop.k = "block"
    /\ dst \in LocalNames
    /\ leaf \in LeavesOver(DOMAIN bscope) /\ leaf.k # "ident"
    /\ LET v == VisitExpr(leaf, states)
           f == FrameVisit(BTop, leaf, v.ops)
           g1 == ScopeVisit(bscope, leaf)
       IN  IF v.msg # NoMsg THEN BorrowRaise(v.msg, LeafEvent(leaf))
           ELSE /\ WithinCaps(v.st, f)
                /\ states' = Put(v.st, dst, NewState)
                /\ bstack' = SetTop(bstack, FrameLet(f, v.st, g1, dst))
                /\ bscope' = Put(g1, dst, GBinding(LeafType(bscope, leaf)))
                /\ bev' = LeafEvent(leaf)
                /\ berr' = "none"
                /\ bsize' = bsize + 1

\* a nested BlockExpr (or the block of an UnsafeExpr): _check_block is entered
BlockBegin ==
    /\ BorrowOnly
    /\ BRunning /\ BTop.k = "block"
    /\ Len(bstack) < MaxDepth
    /\ bstack' = Append(bstack, BlockFrame(states))
    /\ bev' = BEvent("enter", LitLeaf, <<>>, <<>>)
    /\ UNCHANGED <<states, bscope, berr, bsize>>

\* _check_block returns: release, restore, and the caller goes on.  The caller
\* is the enclosing block, the IfExpr case (after the then block: the else
\* states are cloned; after an else block: the merge) or the MatchExpr case
\* (after an arm: the arm's states are collected)
BlockEnd ==
    /\ BorrowOnly
    /\ BRunning /\ BTop.k = "block"
    /\ LET exit == ExitBlock(states, BTop)
           gexit == ScopeExit(bscope, BTop)
           rest == BRest
           parent == rest[Len(rest)]
       IN  /\ bev' = BEvent("blockend", LitLeaf, BTop.entry, exit)
           /\ berr' = "none"
           /\ UNCHANGED bsize
           /\ IF rest = <<>> \/ parent.k = "block"
              THEN /\ states' = exit
                   /\ bstack' = rest
                   /\ bscope' = gexit
              ELSE IF parent.k = "if" /\ parent.phase = "then"
              THEN /\ states' = CloneStates(parent.base)
                   /\ bstack' = SetTop(rest, [parent EXCEPT !.phase = "else",
                                                            !.branches = <<exit>>,
                                                            !.gbranches = <<gexit>>])
                   /\ bscope' = parent.gbase
              ELSE IF parent.k = "if"
              THEN /\ states' = MergeBranchStates(parent.base, Append(parent.branches, exit))
                   /\ bstack' = SubSeq(rest, 1, Len(rest) - 1)
                   /\ bscope' = ScopeMerge(parent.gbase, Append(parent.gbranches, gexit))
              ELSE /\ states' = parent.base
                   /\ bstack' = SetTop(rest, [parent EXCEPT
                        !.phase = "arms",
                        !.branches = Append(@, exit),
                        !.gbranches = Append(@, ScopeLeave(parent.gbase, gexit, parent.gbound)),
                        !.gbound = {}])
                   /\ bscope' = parent.gbase

\* IfExpr: the condition is visited with the enclosing release_ops, base is
\* cloned and _check_block is entered for the then block
IfBegin(leaf) ==
    /\ BorrowOnly
    /\ CanVisit /\ BTop.k = "block"
    /\ Len(bstack) + 2 <= MaxDepth
    /\ leaf \in LeavesOver(DOMAIN bscope)
    /\ LET v == VisitExpr(leaf, states)
           f == FrameVisit(BTop, leaf, v.ops)
           g1 == ScopeVisit(bscope, leaf)
           base == CloneStates(v.st)
           then_states == CloneStates(base)
       IN  IF v.msg # NoMsg THEN BorrowRaise(v.msg, LeafEvent(leaf))
           ELSE /\ WithinCaps(v.st, f)
                /\ states' = then_states
                /\ bstack' = SetTop(bstack, f) \o <<IfFrame(base, g1), BlockFrame(then_states)>>
                /\ bscope' = g1
                /\ bev' = LeafEvent(leaf)
                /\ berr' = "none"
                /\ bsize' = bsize + 1

InElse == BRunning /\ BTop.k = "if" /\ BTop.phase = "else"

\* IfExpr without else branch: else_states stay the clone of base; merge
ElseNone ==
    /\ BorrowOnly
    /\ InElse
    /\ states' = MergeBranchStates(BTop.base, Append(BTop.branches, states))
    /\ bscope' = ScopeMerge(BTop.gbase, Append(BTop.gbranches, bscope))
    /\ bstack' = BRest
    /\ bev' = BEvent("merge", LitLeaf, <<>>, <<>>)
    /\ berr' = "none"
    /\ UNCHANGED bsize

\* IfExpr whose else branch is not a block: _visit_expr(else_branch, else_states,
\* expr_types, []); merge
ElseExpr(leaf) ==
    /\ BorrowOnly
    /\ InElse /\ bsize < MaxSize
    /\ leaf \in LeavesOver(DOMAIN bscope)
    /\ LET v == VisitExpr(leaf, states) IN
       IF v.msg # NoMsg THEN BorrowRaise(v.msg, LeafEvent(leaf))
       ELSE /\ WithinCaps(v.st, BTop)
            /\ states' = MergeBranchStates(BTop.base, Append(BTop.branches, v.st))
            /\ bscope' = ScopeMerge(BTop.gbase,
                                    Append(BTop.gbranches, ScopeVisit(bscope, leaf)))
            /\ bstack' = BRest
            /\ bev' = LeafEvent(leaf)
            /\ berr' = "none"
            /\ bsize' = bsize + 1

\* IfExpr whose else branch is a block: _visit_expr reaches _check_block
ElseBlock ==
    /\ BorrowOnly
    /\ InElse
    /\ bstack' = Append(bstack, BlockFrame(states))
    /\ bev' = BEvent("enter", LitLeaf, <<>>, <<>>)
    /\ UNCHANGED <<states, bscope, berr, bsize>>

\* MatchExpr: the target is visited with the enclosing release_ops, base is cloned
MatchBegin(leaf) ==
    /\ BorrowOnly
    /\ CanVisit /\ BTop.k = "block"
    /\ Len(bstack) + 2 <= MaxDepth
    /\ leaf \in LeavesOver(DOMAIN bscope)
    /\ LET v == VisitExpr(leaf, states)
           ty == LeafType(bscope, leaf)
           f == FrameVisit(BTop, leaf, v.ops)
           g1 == ScopeVisit(bscope, leaf)
           base == CloneStates(v.st)
       IN  IF v.msg # NoMsg THEN BorrowRaise(v.msg, LeafEvent(leaf))
           ELSE /\ WithinCaps(v.st, f)
                /\ states' = base
                /\ bstack' = SetTop(bstack, f) \o <<MatchFrame(base, ty, g1)>>
                /\ bscope' = g1
                /\ bev' = LeafEvent(leaf)
                /\ berr' = "none"
                /\ bsize' = bsize + 1

BetweenArms == BRunning /\ BTop.k = "match" /\ BTop.phase = "arms"

\* a match arm whose expression is not a block: the arm's states are cloned,
\* the pattern is bound, _visit_expr(arm.expr, arm_states, expr_types, [])
ArmExpr(pattern, leaf) ==
    /\ BorrowOnly
    /\ BetweenArms /\ bsize < MaxSize
    /\ Len(BTop.branches) < MaxArms
    /\ pattern \in Patterns /\ PatternTypeChecks(pattern, BTop.target_ty)
    /\ LET arm_states == BindPatternNames(pattern, CloneStates(BTop.base), BTop.target_ty)
           garm == ScopeWithPattern(BTop.gbase, pattern, BTop.target_ty)
       IN  /\ leaf \in LeavesOver(DOMAIN garm)
           /\ LET v == VisitExpr(leaf, arm_states) IN
              IF v.msg # NoMsg THEN BorrowRaise(v.msg, LeafEvent(leaf))
              ELSE /\ WithinCaps(v.st, BTop)
                   /\ states' = BTop.base
                   /\ bstack' = SetTop(bstack, [BTop EXCEPT
                        !.branches = Append(@, v.st),
                        !.gbranches = Append(@, ScopeLeave(BTop.gbase,
                                                           ScopeVisit(garm, leaf),
                                                           PatternBound(pattern)))])
                   /\ bscope' = BTop.gbase
                   /\ bev' = LeafEvent(leaf)
                   /\ berr' = "none"
                   /\ bsize' = bsize + 1

\* a match arm whose expression is a block: _check_block is entered on arm_states
ArmBlock(pattern) ==
    /\ BorrowOnly
    /\ BetweenArms
    /\ Len(BTop.branches) < MaxArms
    /\ pattern \in Patterns /\ PatternTypeChecks(pattern, BTop.target_ty)
    /\ LET arm_states == BindPatternNames(pattern, CloneStates(BTop.base), BTop.target_ty)
           garm == ScopeWithPattern(BTop.gbase, pattern, BTop.target_ty)
       IN  /\ states' = arm_states
           /\ bstack' = SetTop(bstack, [BTop EXCEPT !.phase = "arm",
                                                    !.gbound = PatternBound(pattern)])
                        \o <<BlockFrame(arm_states)>>
           /\ bscope' = garm
           /\ bev' = BEvent("enter", LitLeaf, <<>>, <<>>)
           /\ berr' = "none"
           /\ UNCHANGED bsize

\* the arms are done (the type checker refuses a match without arms): merge
MatchEnd ==
    /\ BorrowOnly
    /\ BetweenArms
    /\ Len(BTop.branches) >= 1
    /\ states' = MergeBranchStates(BTop.base, BTop.branches)
    /\ bscope' = ScopeMerge(BTop.gbase, BTop.gbranches)
    /\ bstack' = BRest
    /\ bev' = BEvent("merge", LitLeaf, <<>>, <<>>)
    /\ berr' = "none"
    /\ UNCHANGED bsize

(***************************************************************************)
(* The inputs infer is tried on, and its steps.                            *)
(***************************************************************************)
MaxMatchArms == 2     \* arms of the match expression

\* enum Op { Add, Neg(Int) }, enum UnsupportedOp { Add, Neg(Int) }, enum Never { }
OpVariants == (V_Add :> EnumVariantInfo(0, <<>>)) @@ (V_Neg :> EnumVariantInfo(1, <<INT>>))
Enums == (TN_Op :> OpVariants) @@ (TN_UnsupportedOp :> OpVariants) @@ (TN_Never :> NoVariants)

\* types of the operand of `?` and declared return types
TryTypes ==
    {INT, STRING_TY, VOID, UNKNOWN, option_type(INT),
     Type(TN_Result, <<INT>>),
     result_type(INT, STRING_TY), result_type(INT, INT), result_type(STRING_TY, STRING_TY),
     result_type(INT, UNKNOWN), result_type(UNKNOWN, STRING_TY),
     result_type(INT, option_type(INT)), result_type(INT, option_type(UNKNOWN)),
     result_type(INT, option_type(STRING_TY))}

\* types of a match target
MatchTargets ==
    {BOOL, INT, Type(TN_Op, <<>>), Type(TN_UnsupportedOp, <<>>), Type(TN_Never, <<>>),
     option_type(INT), result_type(INT, STRING_TY)}

MatchPatterns ==
    {WildcardPattern,
     NamePattern(V_n), NamePattern(V_Add), NamePattern(V_Neg), NamePattern(V_None),
     LiteralPattern(L_true), LiteralPattern(L_false), LiteralPattern(L_one),
     VariantPattern(V_Add, 0), VariantPattern(V_Neg, 1), VariantPattern(V_Neg, 0),
     VariantPattern(V_Some, 1), VariantPattern(V_Ok, 1), VariantPattern(V_Err, 1)}

\* types of the arm expressions
ArmTypes == {INT, STRING_TY, result_type(INT, UNKNOWN), result_type(UNKNOWN, STRING_TY)}

MatchArms == {MatchArm(p, ty) : p \in MatchPatterns, ty \in ArmTypes}
ArmLists == UNION {[1..n -> MatchArms] : n \in 1..MaxMatchArms}

NoInput ==
    [op |-> "none", inner |-> VOID, fn_ret |-> VOID, target_ty |-> VOID, arms |-> <<>>,
     params |-> <<>>, args |-> <<>>]
Output(r) == [ty |-> r.ty, code |-> CodeOf(CheckerModule, r.msg)]

\* nothing has been given to infer
CheckIdle ==
    /\ cin = NoInput
    /\ cout = Output(Typed(VOID, NoMsg))

\* the type checker leaves the data of the other passes alone
CheckOnly == UNCHANGED <<bvars, lvars, NotBorrowCheckLower>>

\* infer(e?) where e has the type inner, inside a function returning fn_ret
InferTry(inner, fn_ret) ==
    /\ CheckOnly
    /\ cin.op = "none"
    /\ cin' = [NoInput EXCEPT !.op = "try", !.inner = inner, !.fn_ret = fn_ret]
    /\ cout' = Output(InferPostfixTry(inner, fn_ret))

\* infer(match e { arms }) where e has the type target_ty
InferMatchExpr(target_ty, arms) ==
    /\ CheckOnly
    /\ cin.op = "none"
    /\ cin' = [NoInput EXCEPT !.op = "match", !.target_ty = target_ty, !.arms = arms]
    /\ cout' = Output(InferMatch(target_ty, arms, Enums))

\* _check_function.infer on a RangeExpr, an AwaitExpr and a SpawnExpr: each raises
M_unsupported_range ==
    <<"u","n","s","u","p","p","o","r","t","e","d"," ","r","a","n","g","e"," ","e","x","p","r","e","s","s","i","o","n">>
M_await_not_implemented ==
    <<"a","w","a","i","t"," ","c","o","d","e","g","e","n"," ","i","s"," ","n","o","t"," ","i","m","p","l","e","m","e","n","t","e","d"," ","y","e","t">>
M_spawn_not_implemented ==
    <<"s","p","a","w","n"," ","c","o","d","e","g","e","n"," ","i","s"," ","n","o","t"," ","i","m","p","l","e","m","e","n","t","e","d"," ","y","e","t">>
InferRange == Typed(VOID, M_unsupported_range)
InferAwait == Typed(VOID, M_await_not_implemented)
InferSpawn == Typed(VOID, M_spawn_not_implemented)

\* the expressions the checker turns down
UnsupportedExprs == {"range", "range_inclusive", "await", "spawn"}

\* infer(a..b), infer(a..=b), infer(await e), infer(spawn e)
InferUnsupportedExpr(op) ==
    /\ CheckOnly
    /\ cin.op = "none"
    /\ cin' = [NoInput EXCEPT !.op = op]
    /\ cout' = Output(CASE op = "await" -> InferAwait
                        [] op = "spawn" -> InferSpawn
                        [] OTHER -> InferRange)

(***************************************************************************)
(* checker.py: a call of a generic function.                               *)
(***************************************************************************)
M_wrong_number ==
    <<"w","r","o","n","g"," ","n","u","m","b","e","r"," ","o","f"," ","a","r","g","u","m","e","n","t","s"," ","f","o","r"," ","'">>
M_quote_expected ==
    <<"'",":"," ","e","x","p","e","c","t","e","d"," ">>
FN_pick ==
    <<"p","i","c","k">>
TN_T ==
    <<"T">>

\* the names _bind_generic and _apply_subst never take for a type variable
BuiltinTypeNames ==
    {TN_Int, TN_Float, TN_Bool, TN_Char, TN_String, TN_Void, TN_Result, TN_Option,
     TN_Ref, TN_Ptr, TN_Unknown}

NoSubst == <<>>
Bound(subst, msg) == [subst |-> subst, msg |-> msg]

RECURSIVE BindGeneric(_, _, _)
RECURSIVE BindGenericArgs(_, _, _, _)
\* _bind_generic: the substitution after binding expected to actual, and the
\* message raised, if any
BindGeneric(expected, actual, subst) ==
    IF /\ expected.args = <<>>
       /\ expected.name # <<>>
       /\ IsUpperChar(expected.name[1])
       /\ expected.name \notin BuiltinTypeNames
    THEN IF expected.name \notin DOMAIN subst
         THEN Bound((expected.name :> actual) @@ subst, NoMsg)
         ELSE Bound(subst, EnsureAssignable(subst[expected.name], actual))
    ELSE IF expected.name # actual.name \/ Len(expected.args) # Len(actual.args)
    THEN Bound(subst, M_type_mismatch_expected \o TypeStr(expected) \o M_got \o TypeStr(actual))
    ELSE BindGenericArgs(expected.args, actual.args, subst, 1)

\* the loop of _bind_generic over the arguments of the two types, from the i-th
BindGenericArgs(exp_args, got_args, subst, i) ==
    IF i > Len(exp_args) THEN Bound(subst, NoMsg)
    ELSE LET b == BindGeneric(exp_args[i], got_args[i], subst) IN
         IF b.msg # NoMsg THEN b ELSE BindGenericArgs(exp_args, got_args, b.subst, i + 1)

RECURSIVE ApplySubst(_, _)
\* _apply_subst
ApplySubst(ty, subst) ==
    IF ty.args = <<>> /\ ty.name \in DOMAIN subst /\ ty.name \notin BuiltinTypeNames
    THEN subst[ty.name]
    ELSE IF ty.args = <<>> THEN ty
    ELSE Type(ty.name, [i \in 1..Len(ty.args) |-> ApplySubst(ty.args[i], subst)])

\* the signature of a function
FunctionType(params, ret, generic_params) ==
    [params |-> params, ret |-> ret, generic_params |-> generic_params]

RECURSIVE BindCallArgs(_, _, _, _)
\* the first loop of the generic call: binds the arguments from the i-th
BindCallArgs(sig, arg_types, subst, i) ==
    IF i > Len(arg_types) THEN Bound(subst, NoMsg)
    ELSE LET b == BindGeneric(sig.params[i], arg_types[i], subst) IN
         IF b.msg # NoMsg THEN b ELSE BindCallArgs(sig, arg_types, b.subst, i + 1)

\* infer on a CallExpr of the generic function pick with the signature sig,
\* whose arguments have the types arg_types
InferGenericCall(sig, arg_types) ==
    IF Len(arg_types) # Len(sig.params)
    THEN Typed(VOID, M_wrong_number \o FN_pick \o M_quote_expected
                       \o NatStr(Len(sig.params)) \o M_got \o NatStr(Len(arg_types)))
    ELSE LET b == BindCallArgs(sig, arg_types, NoSubst, 1)
             clash == FirstIndex({i \in 1..Len(arg_types) :
                         EnsureAssignable(ApplySubst(sig.params[i], b.subst), arg_types[i]) # NoMsg})
         IN  IF b.msg # NoMsg THEN Typed(VOID, b.msg)
             ELSE IF clash # 0
             THEN Typed(VOID, EnsureAssignable(ApplySubst(sig.params[clash], b.subst), arg_types[clash]))
             ELSE Typed(ApplySubst(sig.ret, b.subst), NoMsg)

MaxCallArgs == 2     \* parameters and arguments of the call

\* enum Op is declared (Enums); fn pick[T](...) has T for its generic parameter
GenericParams == <<TN_T>>
ParamTypes == {Type(TN_T, <<>>), Type(TN_Op, <<>>), INT, option_type(Type(TN_T, <<>>))}
ReturnTypes == {Type(TN_T, <<>>), Type(TN_Op, <<>>)}
CallArgTypes == {INT, BOOL, Type(TN_Op, <<>>), option_type(INT), option_type(UNKNOWN)}
ParamLists == UNION {[1..n -> ParamTypes] : n \in 1..MaxCallArgs}
CallArgLists == UNION {[1..n -> CallArgTypes] : n \in 1..MaxCallArgs}

\* infer(pick(args)) where fn pick[T](params) -> ret
InferCallExpr(params, ret, arg_types) ==
    /\ CheckOnly
    /\ cin.op = "none"
    /\ cin' = [NoInput EXCEPT !.op = "call", !.params = params, !.fn_ret = ret, !.args = arg_types]
    /\ cout' = Output(InferGenericCall(FunctionType(params, ret, GenericParams), arg_types))

(***************************************************************************)
(* mir.py and lowering.py: the builder.  An SSA value is None, the empty   *)
(* string, a parameter %arg<i> or a temporary %t<i>; a block is named by   *)
(* its prefix and the block_index it was created with.                     *)
(***************************************************************************)
LoweringModule == "midori_ir.lowering"

NoneVal == [k |-> "none", i |-> 0]
EmptyVal == [k |-> "empty", i |-> 0]
ArgVal(i) == [k |-> "arg", i |-> i]
TmpVal(i) == [k |-> "tmp", i |-> i]

\* ConstInstr, BinOpInstr, CallInstr, EnumConstructInstr, EnumTagInstr,
\* EnumFieldInstr (op, target, operands, and in attr the ConstInstr's value, the
\* BinOpInstr's op, the CallInstr's name, the variant_index or the field_index)
\* and PhiInstr (target, incomings)
Instr(op, target, args, attr) ==
    [op |-> op, target |-> target, args |-> args, incomings |-> <<>>, attr |-> attr]
PhiInstr(target, incomings) ==
    [op |-> "phi", target |-> target, args |-> <<>>, incomings |-> incomings, attr |-> <<>>]

\* literal values, operators and indices as text
L_zero ==
    <<"0">>
L_zero_float ==
    <<"0",".","0">>
L_empty_string ==
    <<"\"","\"">>
OP_eq ==
    <<"=","=">>
FN_print ==
    <<"p","r","i","n","t">>

\* terminators; NoTerminator is BasicBlock.terminator = None
NoTerminator ==
    [k |-> "none", target |-> 0, cond |-> NoneVal, then_bb |-> 0, else_bb |-> 0, value |-> NoneVal]
BranchInstr(target) == [NoTerminator EXCEPT !.k = "br", !.target = target]
CondBranchInstr(cond, then_bb, else_bb) ==
    [NoTerminator EXCEPT !.k = "condbr", !.cond = cond, !.then_bb = then_bb, !.else_bb = else_bb]
ReturnInstr(value) == [NoTerminator EXCEPT !.k = "ret", !.value = value]

\* BasicBlock(name = prefix_index); set_count counts the assignments to
\* terminator
BasicBlock(prefix) ==
    [prefix |-> prefix, instructions |-> <<>>, terminator |-> NoTerminator, set_count |-> 0]

\* _Builder.__post_init__: blocks = {entry_0}, current = entry = entry_0
NewBuilder ==
    [blocks |-> [i \in {0} |-> BasicBlock("entry")], block_index |-> 1, temp_index |-> 0,
     current |-> 0]

\* _Builder.new_block: the builder afterwards; the new block is b.block_index
NewBlock(b, prefix) ==
    [b EXCEPT !.blocks = Put(@, b.block_index, BasicBlock(prefix)),
              !.block_index = @ + 1]

\* _Builder.emit
Emit(b, instr) == [b EXCEPT !.blocks[b.current].instructions = Append(@, instr)]

\* _Builder.terminate
Terminate(b, instr) ==
    [b EXCEPT !.blocks[b.current].terminator = instr,
              !.blocks[b.current].set_count = @ + 1]

\* _Builder.tmp: the builder afterwards; the name handed out is %t<b.temp_index>
Tmp(b) == [b EXCEPT !.temp_index = @ + 1]

\* self.current = bb
SetCurrent(b, bb) == [b EXCEPT !.current = bb]

\* `if self.current.terminator is None: self.terminate(instr)`
TerminateIfOpen(b, instr) ==
    IF b.blocks[b.current].terminator = NoTerminator THEN Terminate(b, instr) ELSE b

\* out = self.tmp(); self.emit(<op>(target=out, ...)): the builder afterwards
EmitTmp(b, op, args, attr) == Emit(Tmp(b), Instr(op, TmpVal(b.temp_index), args, attr))

\* _enum_key_for_type: None or the key
NoKey == [isnone |-> TRUE, key |-> <<>>]
EnumKeyForType(ty) ==
    IF ty.name \in {TN_Option, TN_Result} /\ ty.args # <<>>
    THEN [isnone |-> FALSE, key |-> TypeStr(ty)]
    ELSE IF ty.name \in {TN_Int, TN_Float, TN_Bool, TN_Char, TN_String, TN_Void, TN_Range,
                         TN_Ref, TN_Ptr, TN_Unknown}
    THEN NoKey
    ELSE [isnone |-> FALSE, key |-> ty.name]

\* the function that is lowered: fn f(r: Result[Int, String]) -> fn_ret, in a
\* program that declares `error Boom` and fn print
RES == result_type(INT, STRING_TY)
ParamVal == ArgVal(0)

\* enum_layouts of that program: the one key Result[Int, String], whose layout
\* _layout_for_enum_key splits into Ok(Int), Err(String)
EnumLayoutKeys == {TypeStr(RES)}
FirstVariantFieldTypes(key) == <<INT>>

Lowered(b, val, msg) == [b |-> b, val |-> val, msg |-> msg]

\* _emit_default_value
EmitDefaultValue(b, ty) ==
    IF ty = VOID THEN Lowered(b, EmptyVal, NoMsg)
    ELSE IF ty \in {INT, FLOAT, BOOL, STRING_TY}
    THEN LET value == CASE ty = INT -> L_zero
                        [] ty = FLOAT -> L_zero_float
                        [] ty = BOOL -> L_false
                        [] OTHER -> L_empty_string
         IN  Lowered(EmitTmp(b, "const", <<>>, value), TmpVal(b.temp_index), NoMsg)
    ELSE IF ~EnumKeyForType(ty).isnone /\ EnumKeyForType(ty).key \in EnumLayoutKeys
    THEN LET b1 == EmitTmp(b, "const", <<>>, L_zero)
             field_vals == <<TmpVal(b.temp_index)>>
         IN  Lowered(EmitTmp(b1, "enum_construct", field_vals, L_zero), TmpVal(b1.temp_index), NoMsg)
    ELSE Lowered(EmitTmp(b, "const", <<>>, L_zero), TmpVal(b.temp_index), NoMsg)

\* the expressions without sub-blocks that occur: the literal 1, the call
\* print(1), the identifier r, r? and raise Boom("x")
LowerLeaves == {"int", "print", "ident", "try", "raise"}

\* _lower_try_expr without `self.current = ok_bb`: the payload is read in try_err
LowerTryExprStayInErr(b, inner_ty, fn_ret) ==
    IF inner_ty.name # TN_Result \/ Len(inner_ty.args) # 2
    THEN Lowered(b, EmptyVal, M_lowering_expects)
    ELSE IF fn_ret.name # TN_Result
    THEN Lowered(b, EmptyVal, M_try_can_only)
    ELSE IF EnumKeyForType(inner_ty).isnone
    THEN Lowered(b, EmptyVal, M_missing_enum_key \o TypeStr(inner_ty))
    ELSE LET result_val == ParamVal
             b1 == EmitTmp(b, "enum_tag", <<result_val>>, <<>>)
             tag_val == TmpVal(b.temp_index)
             b2 == EmitTmp(b1, "const", <<>>, L_zero)
             ok_tag == TmpVal(b1.temp_index)
             b3 == EmitTmp(b2, "binop", <<tag_val, ok_tag>>, OP_eq)
             is_ok == TmpVal(b2.temp_index)
             b4 == NewBlock(b3, "try_ok")
             ok_bb == b3.block_index
             b5 == NewBlock(b4, "try_err")
             err_bb == b4.block_index
             b6 == Terminate(b5, CondBranchInstr(is_ok, ok_bb, err_bb))
             b7 == Terminate(SetCurrent(b6, err_bb), ReturnInstr(result_val))
             b8 == EmitTmp(b7, "enum_field", <<result_val>>, L_zero)
         IN  Lowered(b8, TmpVal(b7.temp_index), NoMsg)

\* _lower_try_expr on r?; inner_ty is expr_types[id(expr.expr)]
LowerTryExpr(b, inner_ty, fn_ret) ==
    IF inner_ty.name # TN_Result \/ Len(inner_ty.args) # 2
    THEN Lowered(b, EmptyVal, M_lowering_expects)
    ELSE IF fn_ret.name # TN_Result
    THEN Lowered(b, EmptyVal, M_try_can_only)
    ELSE IF EnumKeyForType(inner_ty).isnone
    THEN Lowered(b, EmptyVal, M_missing_enum_key \o TypeStr(inner_ty))
    ELSE LET result_val == ParamVal
             b1 == EmitTmp(b, "enum_tag", <<result_val>>, <<>>)
             tag_val == TmpVal(b.temp_index)
             b2 == EmitTmp(b1, "const", <<>>, L_zero)
             ok_tag == TmpVal(b1.temp_index)
             b3 == EmitTmp(b2, "binop", <<tag_val, ok_tag>>, OP_eq)
             is_ok == TmpVal(b2.temp_index)
             b4 == NewBlock(b3, "try_ok")
             ok_bb == b3.block_index
             b5 == NewBlock(b4, "try_err")
             err_bb == b4.block_index
             b6 == Terminate(b5, CondBranchInstr(is_ok, ok_bb, err_bb))
             b7 == Terminate(SetCurrent(b6, err_bb), ReturnInstr(result_val))
             b8 == EmitTmp(SetCurrent(b7, ok_bb), "enum_field", <<result_val>>, L_zero)
         IN  Lowered(b8, TmpVal(b7.temp_index), NoMsg)

\* lower_expr on a leaf; ty is expr_types[id(expr)]
LowerLeaf(b, leaf, ty, fn_ret) ==
    CASE leaf = "int" -> Lowered(EmitTmp(b, "const", <<>>, L_one), TmpVal(b.temp_index), NoMsg)
      [] leaf = "ident" -> Lowered(b, ParamVal, NoMsg)
      [] leaf = "print" ->
           LET b1 == EmitTmp(b, "const", <<>>, L_one)
               args == <<TmpVal(b.temp_index)>>
           IN  IF ty = VOID
               THEN Lowered(Emit(b1, Instr("call", NoneVal, args, FN_print)), EmptyVal, NoMsg)
               ELSE Lowered(EmitTmp(b1, "call", args, FN_print), TmpVal(b1.temp_index), NoMsg)
      [] leaf = "try" -> LowerTryExpr(b, RES, fn_ret)
      [] OTHER -> Lowered(b, EmptyVal, M_unsupported_lowering)

\* self.current = self.new_block(prefix)
NewBlockCurrent(b, prefix) == SetCurrent(NewBlock(b, prefix), b.block_index)

\* lower_stmt on a ReturnStmt without the block for the statements that follow
LowerReturnNoDeadBlock(b, value) == Terminate(b, ReturnInstr(value))

\* lower_stmt on a ReturnStmt whose expression was lowered to value (None
\* without expression)
LowerReturn(b, value) == NewBlockCurrent(Terminate(b, ReturnInstr(value)), "dead")

(***************************************************************************)
(* lowering.py, lower_typed_program: the enum layouts of a program.        *)
(***************************************************************************)
\* Python text operations used on enum keys
RECURSIVE Split(_, _)
\* s.split(sep), sep one character
Split(s, sep) ==
    IF \E i \in 1..Len(s) : s[i] = sep
    THEN LET i == CHOOSE j \in 1..Len(s) : s[j] = sep /\ \A k \in 1..(j - 1) : s[k] # sep
         IN  <<SubSeq(s, 1, i - 1)>> \o Split(SubSeq(s, i + 1, Len(s)), sep)
    ELSE <<s>>

RECURSIVE Strip(_)
\* s.strip()
Strip(s) ==
    IF s = <<>> THEN s
    ELSE IF s[1] = " " THEN Strip(Tail(s))
    ELSE IF s[Len(s)] = " " THEN Strip(SubSeq(s, 1, Len(s) - 1))
    ELSE s

\* the enums the program declares:
\*   enum Shape { Dot, Rect(w: Int, h: Int) }      enum Wrap { Held(s: Shape), Empty }
TN_Shape ==
    <<"S","h","a","p","e">>
TN_Wrap ==
    <<"W","r","a","p">>
V_Dot ==
    <<"D","o","t">>
V_Rect ==
    <<"R","e","c","t">>
V_Held ==
    <<"H","e","l","d">>
V_Empty ==
    <<"E","m","p","t","y">>

\* checker.py EnumVariantInfo with its name, mir.py EnumVariantLayout
NamedVariantInfo(name, index, field_types) ==
    [name |-> name, index |-> index, field_types |-> field_types]
EnumVariantLayout(name, index, field_types) ==
    [name |-> name, index |-> index, field_types |-> field_types]
\* mir.py EnumLayout
EnumLayout(key, variants, payload_slots) ==
    [key |-> key, variants |-> variants, payload_slots |-> payload_slots]

\* typed.enums of that program: enum name -> the set of its variants
ProgramEnums ==
    (TN_Shape :> {NamedVariantInfo(V_Rect, 1, <<INT, INT>>), NamedVariantInfo(V_Dot, 0, <<>>)})
    @@ (TN_Wrap :> {NamedVariantInfo(V_Held, 0, <<Type(TN_Shape, <<>>)>>),
                    NamedVariantInfo(V_Empty, 1, <<>>)})

\* sorted(enum_info.variants.values(), key=lambda x: x.index)
RECURSIVE SortedByIndex(_)
SortedByIndex(variants) ==
    IF variants = {} THEN <<>>
    ELSE LET first == CHOOSE v \in variants : \A w \in variants : v.index <= w.index
         IN  <<first>> \o SortedByIndex(variants \ {first})

\* max((len(v.field_types) for v in variants), default=0)
MaxFieldCount(variants) ==
    IF variants = <<>> THEN 0
    ELSE LET counts == {Len(variants[i].field_types) : i \in 1..Len(variants)}
         IN  CHOOSE m \in counts : \A n \in counts : n <= m

\* _collect_type_enums(ty, typed, out): the keys it adds to out
RECURSIVE CollectTypeEnums(_, _)
RECURSIVE CollectArgs(_, _)
CollectArgs(args, enums) ==
    IF args = <<>> THEN {}
    ELSE CollectTypeEnums(args[1], enums) \cup CollectArgs(Tail(args), enums)

\* the same without the recursion into the type's arguments
CollectTypeEnumsOutermost(ty, enums) ==
    LET key == EnumKeyForType(ty)
    IN  IF ~key.isnone /\ (ty.name \in DOMAIN enums \/ ty.name \in {TN_Option, TN_Result})
        THEN {key.key}
        ELSE {}

CollectTypeEnums(ty, enums) ==
    LET key == EnumKeyForType(ty)
        own == IF ~key.isnone /\ (ty.name \in DOMAIN enums \/ ty.name \in {TN_Option, TN_Result})
               THEN {key.key}
               ELSE {}
    IN  own \cup CollectArgs(ty.args, enums)

\* _layout_for_enum_key(enum_key, typed): the layout, or raised (RuntimeError)
NoLayout == [raised |-> TRUE, layout |-> EnumLayout(<<>>, <<>>, 0)]
Layout(l) == [raised |-> FALSE, layout |-> l]
Key_OptionOpen == TN_Option \o <<"[">>
Key_ResultOpen == TN_Result \o <<"[">>
LayoutForEnumKey(enum_key, enums) ==
    IF enum_key \in DOMAIN enums
    THEN LET variants == [i \in 1..Cardinality(enums[enum_key]) |->
                            LET v == SortedByIndex(enums[enum_key])[i]
                            IN  EnumVariantLayout(v.name, v.index, v.field_types)]
         IN  Layout(EnumLayout(enum_key, variants, MaxFieldCount(variants)))
    ELSE IF StartsWith(enum_key, Key_OptionOpen)
    THEN LET inner == SubSeq(enum_key, Len(Key_OptionOpen) + 1, Len(enum_key) - 1)
             ty == IF ~Contains(inner, <<",">>) /\ ~Contains(inner, <<"[">>)
                   THEN Type(inner, <<>>)
                   ELSE Type(TN_Unknown, <<>>)
         IN  Layout(EnumLayout(enum_key,
                               <<EnumVariantLayout(V_Some, 0, <<ty>>),
                                 EnumVariantLayout(V_None, 1, <<>>)>>, 1))
    ELSE IF StartsWith(enum_key, Key_ResultOpen)
    THEN LET inside == SubSeq(enum_key, Len(Key_ResultOpen) + 1, Len(enum_key) - 1)
             split == Split(inside, ",")
             ok_ty == Type(Strip(split[1]), <<>>)
             err_ty == IF Len(split) > 1 THEN Type(Strip(split[2]), <<>>)
                       ELSE Type(TN_Unknown, <<>>)
         IN  Layout(EnumLayout(enum_key,
                               <<EnumVariantLayout(V_Ok, 0, <<ok_ty>>),
                                 EnumVariantLayout(V_Err, 1, <<err_ty>>)>>, 1))
    ELSE NoLayout

(***************************************************************************)
(* token.py and lexer.py: the lexer.  A TokenKind is written as its name.  *)
(***************************************************************************)
KW_await ==
    <<"a","w","a","i","t">>
KW_break ==
    <<"b","r","e","a","k">>
KW_continue ==
    <<"c","o","n","t","i","n","u","e">>
KW_else ==
    <<"e","l","s","e">>
KW_enum ==
    <<"e","n","u","m">>
KW_error ==
    <<"e","r","r","o","r">>
KW_extern ==
    <<"e","x","t","e","r","n">>
KW_false ==
    <<"f","a","l","s","e">>
KW_fn ==
    <<"f","n">>
KW_for ==
    <<"f","o","r">>
KW_if ==
    <<"i","f">>
KW_impl ==
    <<"i","m","p","l">>
KW_import ==
    <<"i","m","p","o","r","t">>
KW_in ==
    <<"i","n">>
KW_let ==
    <<"l","e","t">>
KW_loop ==
    <<"l","o","o","p">>
KW_match ==
    <<"m","a","t","c","h">>
KW_module ==
    <<"m","o","d","u","l","e">>
KW_pub ==
    <<"p","u","b">>
KW_raise ==
    <<"r","a","i","s","e">>
KW_return ==
    <<"r","e","t","u","r","n">>
KW_spawn ==
    <<"s","p","a","w","n">>
KW_struct ==
    <<"s","t","r","u","c","t">>
KW_task ==
    <<"t","a","s","k">>
KW_trait ==
    <<"t","r","a","i","t">>
KW_true ==
    <<"t","r","u","e">>
KW_unsafe ==
    <<"u","n","s","a","f","e">>
KW_use ==
    <<"u","s","e">>
KW_var ==
    <<"v","a","r">>
KW_while ==
    <<"w","h","i","l","e">>

\* token.py KEYWORDS
KEYWORDS ==
    (KW_fn :> "FN")
    @@ (KW_let :> "LET")
    @@ (KW_var :> "VAR")
    @@ (KW_struct :> "STRUCT")
    @@ (KW_enum :> "ENUM")
    @@ (KW_trait :> "TRAIT")
    @@ (KW_impl :> "IMPL")
    @@ (KW_pub :> "PUB")
    @@ (KW_use :> "USE")
    @@ (KW_module :> "MODULE")
    @@ (KW_if :> "IF")
    @@ (KW_else :> "ELSE")
    @@ (KW_match :> "MATCH")
    @@ (KW_for :> "FOR")
    @@ (KW_in :> "IN")
    @@ (KW_while :> "WHILE")
    @@ (KW_loop :> "LOOP")
    @@ (KW_break :> "BREAK")
    @@ (KW_continue :> "CONTINUE")
    @@ (KW_return :> "RETURN")
    @@ (KW_task :> "TASK")
    @@ (KW_spawn :> "SPAWN")
    @@ (KW_await :> "AWAIT")
    @@ (KW_unsafe :> "UNSAFE")
    @@ (KW_extern :> "EXTERN")
    @@ (KW_true :> "TRUE")
    @@ (KW_false :> "FALSE")

\* Lexer._symbol: table2 and table1
SymbolTable2 ==
    (<<"=","=">> :> "EQEQ")
    @@ (<<"!","=">> :> "NE")
    @@ (<<"<","=">> :> "LE")
    @@ (<<">","=">> :> "GE")
    @@ (<<"&","&">> :> "ANDAND")
    @@ (<<"|","|">> :> "OROR")
    @@ (<<"+","=">> :> "PLUSEQ")
    @@ (<<"-","=">> :> "MINUSEQ")
    @@ (<<"*","=">> :> "STAREQ")
    @@ (<<"/","=">> :> "SLASHEQ")
    @@ (<<"%","=">> :> "PERCENTEQ")
    @@ (<<":","=">> :> "COLONEQ")
    @@ (<<".",".">> :> "DOTDOT")
    @@ (<<"-",">">> :> "ARROW")
    @@ (<<"=",">">> :> "FATARROW")
SymbolTable1 ==
    ("+" :> "PLUS")
    @@ ("-" :> "MINUS")
    @@ ("*" :> "STAR")
    @@ ("/" :> "SLASH")
    @@ ("%" :> "PERCENT")
    @@ ("=" :> "EQ")
    @@ ("<" :> "LT")
    @@ (">" :> "GT")
    @@ ("!" :> "BANG")
    @@ ("{" :> "LBRACE")
    @@ ("}" :> "RBRACE")
    @@ ("(" :> "LPAREN")
    @@ (")" :> "RPAREN")
    @@ ("[" :> "LBRACKET")
    @@ ("]" :> "RBRACKET")
    @@ ("," :> "COMMA")
    @@ (":" :> "COLON")
    @@ (";" :> "SEMI")
    @@ ("." :> "DOT")
    @@ ("?" :> "QUESTION")
    @@ ("&" :> "AMP")

LexerModule == "midori_compiler.lexer"

\* str.isalpha, str.isdigit and str.isalnum on the characters that occur
IsAlpha(c) == IsUpperChar(c) \/ \E i \in 1..Len(LowerChars) : LowerChars[i] = c
IsAlnum(c) == IsAlpha(c) \/ IsDigit(c)

\* repr of a one-character string
Repr(c) ==
    IF c = "'" THEN <<"\"", "'", "\"">>
    ELSE IF c = "\\" THEN <<"'", "\\", "\\", "'">>
    ELSE <<"'", c, "'">>

\* span.py Span (the file is the same everywhere) and token.py Token
Span(start, end, line, col) == [start |-> start, end |-> end, line |-> line, col |-> col]
Token(kind, lexeme, span) == [kind |-> kind, lexeme |-> lexeme, span |-> span]

\* Lexer.__init__
NewLexer(source) == [source |-> source, pos |-> 0, line |-> 1, col |-> 1]

\* Lexer._at_end, _peek, _peek_next ("NUL" is "\0")
AtEnd(lx) == lx.pos >= Len(lx.source)
Peek(lx) == lx.source[lx.pos + 1]
PeekNext(lx) == IF lx.pos + 1 < Len(lx.source) THEN lx.source[lx.pos + 2] ELSE "NUL"

\* Lexer._advance where source[pos] exists
Advance(lx) ==
    IF Peek(lx) = "\n"
    THEN [lx EXCEPT !.pos = @ + 1, !.line = @ + 1, !.col = 1]
    ELSE [lx EXCEPT !.pos = @ + 1, !.col = @ + 1]

\* what scanning one token gives: a token, nothing (blanks and comments), a
\* MidoriError (msg, span) or the IndexError of source[pos] past the end
Scanned(lx, token) == [k |-> "token", lx |-> lx, token |-> token, msg |-> NoMsg]
Skipped(lx) == [k |-> "skip", lx |-> lx, token |-> Token("", <<>>, Span(0, 0, 0, 0)), msg |-> NoMsg]
LexError(lx, msg, span) == [k |-> "MidoriError", lx |-> lx, token |-> Token("", <<>>, span), msg |-> msg]
IndexError(lx) == [k |-> "IndexError", lx |-> lx, token |-> Token("", <<>>, Span(0, 0, 0, 0)), msg |-> NoMsg]

\* Lexer._advance_n: each _advance reads source[pos]
RECURSIVE AdvanceN(_, _)
AdvanceN(lx, n) ==
    IF n = 0 THEN Skipped(lx)
    ELSE IF AtEnd(lx) THEN IndexError(lx)
    ELSE AdvanceN(Advance(lx), n - 1)

\* Lexer._token with the span from start to the lexer's position
TokenFrom(kind, lx0, lx) ==
    Token(kind, SubSeq(lx.source, lx0.pos + 1, lx.pos), Span(lx0.pos, lx.pos, lx0.line, lx0.col))
SpanFrom(lx0, lx) == Span(lx0.pos, lx.pos, lx0.line, lx0.col)

\* `while not self._at_end() and <the character is a letter, digit or _>: self._advance()`
RECURSIVE SkipIdentChars(_)
SkipIdentChars(lx) ==
    IF ~AtEnd(lx) /\ (IsAlnum(Peek(lx)) \/ Peek(lx) = "_") THEN SkipIdentChars(Advance(lx)) ELSE lx

RECURSIVE SkipDigits(_)
SkipDigits(lx) == IF ~AtEnd(lx) /\ IsDigit(Peek(lx)) THEN SkipDigits(Advance(lx)) ELSE lx

RECURSIVE SkipToNewline(_)
SkipToNewline(lx) == IF ~AtEnd(lx) /\ Peek(lx) # "\n" THEN SkipToNewline(Advance(lx)) ELSE lx

\* Lexer._identifier
Identifier(lx) ==
    LET end == SkipIdentChars(lx)
        text == SubSeq(lx.source, lx.pos + 1, end.pos)
        kind == IF text \in DOMAIN KEYWORDS THEN KEYWORDS[text] ELSE "IDENT"
    IN  Scanned(end, TokenFrom(kind, lx, end))

\* Lexer._number
Number(lx) ==
    LET int_end == SkipDigits(lx)
    IN  IF ~AtEnd(int_end) /\ Peek(int_end) = "." /\ IsDigit(PeekNext(int_end))
        THEN LET end == SkipDigits(Advance(int_end))
             IN  Scanned(end, TokenFrom("FLOAT", lx, end))
        ELSE Scanned(int_end, TokenFrom("INT", lx, int_end))

\* Lexer._string: the loop, lx0 the opening quote
RECURSIVE StringBody(_, _, _)
StringBody(lx0, lx, escaped) ==
    IF AtEnd(lx) THEN LexError(lx, N_unterminated_string, SpanFrom(lx0, lx))
    ELSE LET ch == Peek(lx)
             next == Advance(lx)
         IN  IF escaped THEN StringBody(lx0, next, FALSE)
             ELSE IF ch = "\\" THEN StringBody(lx0, next, TRUE)
             ELSE IF ch = "\"" THEN Scanned(next, TokenFrom("STRING", lx0, next))
             ELSE StringBody(lx0, next, FALSE)

String(lx) == StringBody(lx, Advance(lx), FALSE)

\* Lexer._char
Char(lx) ==
    LET open == Advance(lx)
    IN  IF AtEnd(open) \/ Peek(open) = "\n"
        THEN LexError(open, N_unterminated_char, SpanFrom(lx, open))
        ELSE LET body == IF Peek(open) = "\\" THEN AdvanceN(open, 2) ELSE AdvanceN(open, 1)
             IN  IF body.k = "IndexError" THEN body
                 ELSE IF AtEnd(body.lx) \/ Peek(body.lx) # "'"
                 THEN LexError(body.lx, N_invalid_char_literal, SpanFrom(lx, body.lx))
                 ELSE Scanned(Advance(body.lx), TokenFrom("CHAR", lx, Advance(body.lx)))

\* Lexer._skip_line_comment
SkipLineComment(lx) == Skipped(SkipToNewline(AdvanceN(lx, 2).lx))

\* Lexer._skip_block_comment: the loop, lx0 the opening /*
RECURSIVE BlockCommentBody(_, _)
BlockCommentBody(lx0, lx) ==
    IF AtEnd(lx) THEN LexError(lx, N_unterminated_block_comment, SpanFrom(lx0, lx))
    ELSE IF Peek(lx) = "*" /\ PeekNext(lx) = "/" THEN Skipped(AdvanceN(lx, 2).lx)
    ELSE BlockCommentBody(lx0, Advance(lx))

SkipBlockComment(lx) == BlockCommentBody(lx, AdvanceN(lx, 2).lx)

\* Lexer._symbol
Symbol(lx) ==
    LET two == SubSeq(lx.source, lx.pos + 1, IF lx.pos + 2 <= Len(lx.source) THEN lx.pos + 2
                                               ELSE Len(lx.source))
        three == SubSeq(lx.source, lx.pos + 1, IF lx.pos + 3 <= Len(lx.source) THEN lx.pos + 3
                                                 ELSE Len(lx.source))
    IN  IF three = <<".", ".", "=">>
        THEN Scanned(AdvanceN(lx, 3).lx, TokenFrom("DOTDOTEQ", lx, AdvanceN(lx, 3).lx))
        ELSE IF two \in DOMAIN SymbolTable2
        THEN Scanned(AdvanceN(lx, 2).lx, TokenFrom(SymbolTable2[two], lx, AdvanceN(lx, 2).lx))
        ELSE LET one == Peek(lx)
                 next == Advance(lx)
             IN  IF one \in DOMAIN SymbolTable1
                 THEN Scanned(next, TokenFrom(SymbolTable1[one], lx, next))
                 ELSE LexError(next, N_invalid_character \o <<" ">> \o Repr(one),
                               SpanFrom(lx, next))

\* one iteration of the loop of Lexer.tokenize
ScanOne(lx) ==
    LET c == Peek(lx)
    IN  IF c \in {" ", "\t", "\r"} THEN Skipped(Advance(lx))
        ELSE IF c = "\n" THEN Scanned(Advance(lx), Token("NEWLINE", <<"\n">>,
                                                         Span(lx.pos, lx.pos + 1, lx.line, lx.col)))
        ELSE IF c = "/" /\ PeekNext(lx) = "/" THEN SkipLineComment(lx)
        ELSE IF c = "/" /\ PeekNext(lx) = "*" THEN SkipBlockComment(lx)
        ELSE IF IsAlpha(c) \/ c = "_" THEN Identifier(lx)
        ELSE IF IsDigit(c) THEN Number(lx)
        ELSE IF c = "\"" THEN String(lx)
        ELSE IF c = "'" THEN Char(lx)
        ELSE Symbol(lx)

MaxLowerSize == 4     \* statements, leaves, ifs, matches and arm blocks of the body
MaxLowerDepth == 5    \* constructs open at once
MaxLowerArms == 2     \* arms of a match

(***************************************************************************)
(* check_program and lower_typed_program on one function.  Both passes     *)
(* traverse the body in source order, so they are walked together: a step  *)
(* is one statement, leaf expression, or the begin or end of an if, a      *)
(* match, an arm or a block, and does what _check_function does there and  *)
(* then what the builder does there.  `chk` holds the type checker's       *)
(* expr_types (keyed by AST node; nodes are numbered as the program is     *)
(* written down, chk.nodes so far) and saw_explicit_return; `builder` is   *)
(* the _Builder; `lstack` are the open blocks, ifs and matches.  The       *)
(* bodies walked declare no locals and read only the parameter r, so       *)
(* vars_map and env stay as they start and the borrow checker accepts      *)
(* them.  A diagnostic of the type checker ends the walk; after a          *)
(* diagnostic of the lowering the walk goes on checking only.              *)
(***************************************************************************)

\* expr_types[id(expr)] = ty
Note(c, id, ty) == [c EXCEPT !.expr_types = Put(@, id, ty)]
\* n more AST nodes
NewNodes(c, n) == [c EXCEPT !.nodes = @ + n]

NewChecker == [expr_types |-> <<>>, nodes |-> 0, saw_explicit_return |-> FALSE]

Inferred(c, ty, msg, id) == [c |-> c, ty |-> ty, msg |-> msg, id |-> id]

\* infer on a leaf.  print(1) is a CallExpr with a callee IdentifierExpr and
\* a LiteralExpr argument; r? a PostfixTryExpr over an IdentifierExpr;
\* raise Boom("x") a RaiseExpr over a LiteralExpr
InferLeaf(c, leaf, fn_ret) ==
    LET id == c.nodes IN
    CASE leaf = "int" -> Inferred(Note(NewNodes(c, 1), id, INT), INT, NoMsg, id)
      [] leaf = "ident" -> Inferred(Note(NewNodes(c, 1), id, RES), RES, NoMsg, id)
      [] leaf = "print" ->
           Inferred(Note(Note(NewNodes(c, 3), id + 2, INT), id, VOID), VOID, NoMsg, id)
      [] leaf = "try" ->
           LET c1 == Note(NewNodes(c, 2), id + 1, RES)
               r == InferPostfixTry(RES, fn_ret)
           IN  IF r.msg # NoMsg THEN Inferred(c1, VOID, r.msg, id)
               ELSE Inferred(Note(c1, id, r.ty), r.ty, NoMsg, id)
      [] OTHER ->
           LET c0 == NewNodes(c, 2) IN
           IF fn_ret.name # TN_Result \/ Len(fn_ret.args) # 2
           THEN Inferred(c0, VOID, M_raise_can_only, id)
           ELSE IF EnsureAssignable(STRING_TY, fn_ret.args[2]) # NoMsg
           THEN Inferred(c0, VOID, EnsureAssignable(STRING_TY, fn_ret.args[2]), id)
           ELSE Inferred(Note(Note(c0, id + 1, STRING_TY), id, UNKNOWN), UNKNOWN, NoMsg, id)

\* a block's tail expression, once visited: its type, value and node
NoTail == [has |-> FALSE, ty |-> VOID, val |-> EmptyVal, id |-> 0]
TailOf(ty, val, id) == [has |-> TRUE, ty |-> ty, val |-> val, id |-> id]

\* an open construct.  k = "block": a BlockExpr in infer_block / lower_block
\* (role: the function body, the then block or else block of an if, the
\* block of an arm); k = "if": an IfExpr between its blocks; k = "match": a
\* MatchExpr between its arms.  id is the node, pos whether the expression is
\* a statement or the tail of the enclosing block; skip: the arm is not
\* lowered (remaining_arms was cleared)
LFrame(k, role, id, pos, phase) ==
    [k |-> k, role |-> role, id |-> id, pos |-> pos, phase |-> phase, tail |-> NoTail,
     then_ty |-> VOID, then_val |-> EmptyVal, then_end |-> 0, then_tail |-> NoTail,
     else_bb |-> 0, join_bb |-> 0,
     arms |-> <<>>, pattern |-> WildcardPattern, target_val |-> EmptyVal, end_bb |-> 0,
     test_bb |-> 0, incoming |-> <<>>, cleared |-> FALSE, skip |-> FALSE]

LTop == lstack[Len(lstack)]
LRest == SubSeq(lstack, 1, Len(lstack) - 1)

\* the lowering is at work: it has raised nothing and the arm walked is one
\* that _lower_match_expr lowers
Lowering == lerr = "none" /\ \A i \in 1..Len(lstack) : ~lstack[i].skip

\* the lowering pass leaves the data of the other passes alone
LowerOnly == UNCHANGED <<bvars, cvars, NotBorrowCheckLower>>

\* the type checker raises: the walk ends
CheckRaise(c, msg) ==
    /\ cerr' = CodeOf(CheckerModule, msg)
    /\ chk' = c
    /\ lpc' = "rejected"
    /\ UNCHANGED <<fn_return_type, builder, lstack, lerr, lsize>>

\* what the builder did in a step, or the diagnostic it raised
LowerStep(lowered) ==
    IF ~Lowering THEN UNCHANGED <<builder, lerr>>
    ELSE IF lowered.msg # NoMsg
    THEN /\ lerr' = CodeOf(LoweringModule, lowered.msg)
         /\ UNCHANGED builder
    ELSE /\ builder' = lowered.b
         /\ UNCHANGED lerr

Walking == lpc = "walk" /\ lstack # <<>>
InOpenBlock == Walking /\ LTop.k = "block" /\ LTop.phase = "open"
Room == lsize < MaxLowerSize

\* the value of an if or a match reaches the enclosing block: dropped by an
\* ExprStmt, kept as the block's tail
Deliver(stack, pos, ty, val, id) ==
    IF pos = "tail"
    THEN SetTop(stack, [stack[Len(stack)] EXCEPT !.phase = "tailed", !.tail = TailOf(ty, val, id)])
    ELSE stack

\* ExprStmt over a leaf
LExprStmt(leaf) ==
    /\ LowerOnly
    /\ InOpenBlock /\ Room
    /\ LET i == InferLeaf(chk, leaf, fn_return_type) IN
       IF i.msg # NoMsg THEN CheckRaise(i.c, i.msg)
       ELSE /\ chk' = i.c
            /\ LowerStep(LowerLeaf(builder, leaf, i.ty, fn_return_type))
            /\ lsize' = lsize + 1
            /\ UNCHANGED <<fn_return_type, lstack, lpc, cerr>>

\* ReturnStmt: `return` (leaf = "none") or `return <leaf>`
LReturn(leaf) ==
    /\ LowerOnly
    /\ InOpenBlock /\ Room
    /\ LET c0 == [chk EXCEPT !.saw_explicit_return = TRUE]
           i == IF leaf = "none" THEN Inferred(c0, VOID, NoMsg, 0)
                ELSE InferLeaf(c0, leaf, fn_return_type)
           m == EnsureAssignable(fn_return_type, i.ty)
           l == IF leaf = "none" THEN Lowered(builder, NoneVal, NoMsg)
                ELSE LowerLeaf(builder, leaf, i.ty, fn_return_type)
       IN  IF i.msg # NoMsg THEN CheckRaise(i.c, i.msg)
           ELSE IF m # NoMsg THEN CheckRaise(i.c, m)
           ELSE /\ chk' = IF leaf = "none" THEN i.c
                          ELSE Note(i.c, i.id, CoerceUnknownType(fn_return_type, i.ty))
                /\ LowerStep(IF l.msg # NoMsg THEN l
                             ELSE Lowered(LowerReturn(l.b, l.val), EmptyVal, NoMsg))
                /\ lsize' = lsize + 1
                /\ UNCHANGED <<fn_return_type, lstack, lpc, cerr>>

\* the tail expression of the block, a leaf
LTail(leaf) ==
    /\ LowerOnly
    /\ InOpenBlock /\ Room
    /\ LET i == InferLeaf(chk, leaf, fn_return_type)
           l == LowerLeaf(builder, leaf, i.ty, fn_return_type)
       IN  IF i.msg # NoMsg THEN CheckRaise(i.c, i.msg)
           ELSE /\ chk' = i.c
                /\ LowerStep(l)
                /\ lstack' = Deliver(lstack, "tail", i.ty, l.val, i.id)
                /\ lsize' = lsize + 1
                /\ UNCHANGED <<fn_return_type, lpc, cerr>>

\* IfExpr with the condition `true`: infer and lower_expr up to the then block
LIfBegin(pos) ==
    /\ LowerOnly
    /\ InOpenBlock /\ Room
    /\ Len(lstack) + 2 <= MaxLowerDepth
    /\ LET id == chk.nodes
           b1 == EmitTmp(builder, "const", <<>>, L_true)
           cond == TmpVal(builder.temp_index)
           b2 == NewBlock(b1, "then")
           b3 == NewBlock(b2, "else")
           b4 == NewBlock(b3, "join")
           b5 == Terminate(b4, CondBranchInstr(cond, b1.block_index, b2.block_index))
           b6 == SetCurrent(b5, b1.block_index)
           iff == [LFrame("if", "", id, pos, "then") EXCEPT
                     !.else_bb = b2.block_index, !.join_bb = b3.block_index]
       IN  /\ chk' = Note(NewNodes(chk, 3), id + 1, BOOL)
           /\ LowerStep(Lowered(b6, EmptyVal, NoMsg))
           /\ lstack' = lstack \o <<iff, LFrame("block", "then", id + 2, "", "open")>>
           /\ lsize' = lsize + 1
           /\ UNCHANGED <<fn_return_type, lpc, cerr>>

\* the rest of infer and lower_expr on an IfExpr, once the else branch is
\* done: the IfExpr is the top of stack, els the else branch (has = FALSE:
\* there is none), lowered the builder after it, else_tail the tail of an
\* else block
IfDone(stack, c, lowered, els, else_tail) ==
    LET iff == stack[Len(stack)]
        merged == MergeBranchTypes(iff.then_ty, els.ty)
        c1 == IF iff.then_tail.has
              THEN Note(c, iff.then_tail.id, CoerceUnknownType(merged.ty, iff.then_ty))
              ELSE c
        coerced_else == CoerceUnknownType(merged.ty, els.ty)
        c2 == IF els.has THEN Note(c1, els.id, coerced_else) ELSE c1
        c3 == IF els.has /\ else_tail.has THEN Note(c2, else_tail.id, coerced_else) ELSE c2
        b == lowered.b
        else_end == b.current
        b1 == SetCurrent(TerminateIfOpen(b, BranchInstr(iff.join_bb)), iff.join_bb)
        b2 == Emit(Tmp(b1), PhiInstr(TmpVal(b1.temp_index),
                                     <<<<iff.then_end, iff.then_val>>, <<else_end, els.val>>>>))
        out == IF merged.ty = VOID THEN Lowered(b1, EmptyVal, NoMsg)
               ELSE Lowered(b2, TmpVal(b1.temp_index), NoMsg)
    IN  IF merged.msg # NoMsg THEN CheckRaise(c, merged.msg)
        ELSE /\ chk' = Note(c3, iff.id, merged.ty)
             /\ LowerStep(IF lowered.msg # NoMsg THEN lowered ELSE out)
             /\ lstack' = Deliver(SubSeq(stack, 1, Len(stack) - 1), iff.pos, merged.ty,
                                  IF Lowering THEN out.val ELSE EmptyVal, iff.id)
             /\ UNCHANGED <<fn_return_type, lpc, cerr>>

InElseL == Walking /\ LTop.k = "if" /\ LTop.phase = "else"

\* an IfExpr without else branch
LElseNone ==
    /\ LowerOnly
    /\ InElseL
    /\ IfDone(lstack, chk, Lowered(builder, EmptyVal, NoMsg), NoTail, NoTail)
    /\ UNCHANGED lsize

\* an else branch that is a leaf
LElseLeaf(leaf) ==
    /\ LowerOnly
    /\ InElseL /\ Room
    /\ LET i == InferLeaf(chk, leaf, fn_return_type)
           l == LowerLeaf(builder, leaf, i.ty, fn_return_type)
       IN  IF i.msg # NoMsg THEN CheckRaise(i.c, i.msg) /\ UNCHANGED lsize
           ELSE IfDone(lstack, i.c, l, TailOf(i.ty, l.val, i.id), NoTail) /\ lsize' = lsize + 1

\* an else branch that is a block: infer and lower_expr reach the BlockExpr
LElseBlock ==
    /\ LowerOnly
    /\ InElseL
    /\ chk' = NewNodes(chk, 1)
    /\ lstack' = Append(lstack, LFrame("block", "else", chk.nodes, "", "open"))
    /\ UNCHANGED <<fn_return_type, builder, lpc, cerr, lerr, lsize>>

\* MatchExpr over the target `true`: infer and _lower_match_expr up to the arms
LMatchBegin(pos) ==
    /\ LowerOnly
    /\ InOpenBlock /\ Room
    /\ Len(lstack) + 2 <= MaxLowerDepth
    /\ LET id == chk.nodes
           b1 == EmitTmp(builder, "const", <<>>, L_true)
           b2 == NewBlock(b1, "match_end")
           mf == [LFrame("match", "", id, pos, "arms") EXCEPT
                    !.target_val = TmpVal(builder.temp_index),
                    !.end_bb = b1.block_index, !.test_bb = b1.current]
       IN  /\ chk' = Note(NewNodes(chk, 2), id + 1, BOOL)
           /\ LowerStep(Lowered(b2, EmptyVal, NoMsg))
           /\ lstack' = Append(lstack, mf)
           /\ lsize' = lsize + 1
           /\ UNCHANGED <<fn_return_type, lpc, cerr>>

\* the patterns of the arms: _, true, false and n
LowerPatterns ==
    {WildcardPattern, LiteralPattern(L_true), LiteralPattern(L_false), NamePattern(V_n)}

\* _lower_pattern_condition on a pattern over a Bool target: None (isnone) or
\* the condition
LowerPatternCondition(b, pattern, target_val) ==
    IF pattern.k \in {"wild", "name"} THEN [isnone |-> TRUE, b |-> b, cond |-> NoneVal]
    ELSE LET b1 == EmitTmp(b, "const", <<>>, pattern.value)
             b2 == EmitTmp(b1, "binop", <<target_val, TmpVal(b.temp_index)>>, OP_eq)
         IN  [isnone |-> FALSE, b |-> b2, cond |-> TmpVal(b1.temp_index)]

\* _lower_match_expr from the head of the loop to the arm's expression: the
\* builder and the match frame afterwards
LowerArmStart(b, mf, pattern) ==
    LET arm_bb == b.block_index
        b1 == SetCurrent(NewBlock(b, "match_arm"), mf.test_bb)
        c == LowerPatternCondition(b1, pattern, mf.target_val)
        b2 == Terminate(c.b, BranchInstr(arm_bb))
        b3 == NewBlock(c.b, "match_next")
        b4 == Terminate(b3, CondBranchInstr(c.cond, arm_bb, c.b.block_index))
    IN  IF c.isnone
        THEN [b |-> SetCurrent(NewBlock(b2, "match_dead"), arm_bb),
              mf |-> [mf EXCEPT !.test_bb = b2.block_index, !.cleared = TRUE]]
        ELSE [b |-> SetCurrent(b4, arm_bb),
              mf |-> [mf EXCEPT !.test_bb = c.b.block_index]]

\* _lower_match_expr after the arm's expression, without the entry in incoming
LowerArmEndNoIncoming(b, mf, arm_val) ==
    [b |-> SetCurrent(TerminateIfOpen(b, BranchInstr(mf.end_bb)), mf.test_bb), mf |-> mf]

\* _lower_match_expr after the arm's expression; the loop goes on, or ends,
\* with self.current = test_bb.  incoming is read only when out_ty is not
\* Void, so it is kept whatever out_ty is
LowerArmEnd(b, mf, arm_val) ==
    LET open == b.blocks[b.current].terminator = NoTerminator
        b1 == TerminateIfOpen(b, BranchInstr(mf.end_bb))
    IN  [b |-> SetCurrent(b1, mf.test_bb),
         mf |-> IF open THEN [mf EXCEPT !.incoming = Append(@, <<b.current, arm_val>>)]
                ELSE mf]

InArms == Walking /\ LTop.k = "match"

\* an arm `pattern => leaf`
LArmLeaf(pattern, leaf) ==
    /\ LowerOnly
    /\ InArms /\ Room
    /\ Len(LTop.arms) < MaxLowerArms
    /\ LET pat == CheckPattern(pattern, BOOL, Enums)
           i == InferLeaf(chk, leaf, fn_return_type)
           s == LowerArmStart(builder, LTop, pattern)
           l == LowerLeaf(s.b, leaf, i.ty, fn_return_type)
           e == LowerArmEnd(l.b, s.mf, l.val)
           lowered == Lowering /\ ~LTop.cleared
           mf == IF lowered /\ l.msg = NoMsg THEN e.mf ELSE LTop
       IN  IF pat.msg # NoMsg THEN CheckRaise(chk, pat.msg)
           ELSE IF i.msg # NoMsg THEN CheckRaise(i.c, i.msg)
           ELSE /\ chk' = i.c
                /\ IF lowered
                   THEN LowerStep(IF l.msg # NoMsg THEN l ELSE Lowered(e.b, EmptyVal, NoMsg))
                   ELSE UNCHANGED <<builder, lerr>>
                /\ lstack' = SetTop(lstack, [mf EXCEPT !.arms = Append(@, MatchArm(pattern, i.ty))])
                /\ lsize' = lsize + 1
                /\ UNCHANGED <<fn_return_type, lpc, cerr>>

\* an arm `pattern => { ... }`: up to the BlockExpr
LArmBlock(pattern) ==
    /\ LowerOnly
    /\ InArms /\ Room
    /\ Len(LTop.arms) < MaxLowerArms
    /\ Len(lstack) + 1 <= MaxLowerDepth
    /\ LET pat == CheckPattern(pattern, BOOL, Enums)
           s == LowerArmStart(builder, LTop, pattern)
           lowered == Lowering /\ ~LTop.cleared
           mf == IF lowered THEN s.mf ELSE LTop
           blk == [LFrame("block", "arm", chk.nodes, "", "open") EXCEPT !.skip = LTop.cleared]
       IN  IF pat.msg # NoMsg THEN CheckRaise(chk, pat.msg)
           ELSE /\ chk' = NewNodes(chk, 1)
                /\ IF lowered THEN LowerStep(Lowered(s.b, EmptyVal, NoMsg))
                   ELSE UNCHANGED <<builder, lerr>>
                /\ lstack' = SetTop(lstack, [mf EXCEPT !.pattern = pattern]) \o <<blk>>
                /\ lsize' = lsize + 1
                /\ UNCHANGED <<fn_return_type, lpc, cerr>>

\* the end of the MatchExpr
LMatchEnd ==
    /\ LowerOnly
    /\ InArms
    /\ LTop.arms # <<>>
    /\ LET mf == LTop
           r == InferMatch(BOOL, mf.arms, Enums)
           out_ty == r.ty
           b0 == SetCurrent(builder, mf.test_bb)
           open == b0.blocks[b0.current].terminator = NoTerminator
           d == IF out_ty # VOID THEN EmitDefaultValue(b0, out_ty)
                ELSE Lowered(b0, EmptyVal, NoMsg)
           b1 == IF open THEN Terminate(d.b, BranchInstr(mf.end_bb)) ELSE b0
           incoming == IF open THEN Append(mf.incoming, <<b0.current, d.val>>) ELSE mf.incoming
           b2 == SetCurrent(b1, mf.end_bb)
           b3 == Emit(Tmp(b2), PhiInstr(TmpVal(b2.temp_index), incoming))
           out == IF out_ty = VOID THEN Lowered(b2, EmptyVal, NoMsg)
                  ELSE Lowered(b3, TmpVal(b2.temp_index), NoMsg)
       IN  IF r.msg # NoMsg THEN CheckRaise(chk, r.msg)
           ELSE /\ chk' = Note(chk, mf.id, out_ty)
                /\ LowerStep(out)
                /\ lstack' = Deliver(LRest, mf.pos, out_ty, IF Lowering THEN out.val ELSE EmptyVal, mf.id)
                /\ UNCHANGED <<fn_return_type, lpc, cerr>>
    /\ UNCHANGED lsize

\* the end of a block: infer_block and lower_block return, and their caller
\* goes on: _check_function and lower_typed_program after the body, infer and
\* lower_expr after the then block or the else block of an if, and after the
\* block of an arm
LBlockEnd ==
    /\ LowerOnly
    /\ Walking /\ LTop.k = "block"
    /\ LET blk == LTop
           ty == IF blk.tail.has THEN blk.tail.ty
                 ELSE IF chk.saw_explicit_return THEN fn_return_type ELSE VOID
           val == IF blk.tail.has THEN blk.tail.val ELSE EmptyVal
           parent == LRest[Len(LRest)]
           c1 == Note(chk, blk.id, ty)
       IN
       CASE blk.role = "body" ->
              LET m == EnsureAssignable(fn_return_type, ty)
                  ret == IF fn_return_type = VOID THEN ReturnInstr(NoneVal) ELSE ReturnInstr(val)
              IN  IF m # NoMsg THEN CheckRaise(chk, m) /\ UNCHANGED lsize
                  ELSE /\ chk' = IF blk.tail.has
                                 THEN Note(chk, blk.tail.id, CoerceUnknownType(fn_return_type, ty))
                                 ELSE chk
                       /\ LowerStep(Lowered(TerminateIfOpen(builder, ret), EmptyVal, NoMsg))
                       /\ lstack' = <<>>
                       /\ lpc' = "done"
                       /\ UNCHANGED <<fn_return_type, cerr, lsize>>
         [] blk.role = "then" ->
              /\ LowerStep(Lowered(SetCurrent(TerminateIfOpen(builder, BranchInstr(parent.join_bb)),
                                              parent.else_bb),
                                   EmptyVal, NoMsg))
              /\ lstack' = SetTop(LRest, [parent EXCEPT !.phase = "else", !.then_ty = ty,
                                              !.then_val = val, !.then_end = builder.current,
                                              !.then_tail = blk.tail])
              /\ UNCHANGED <<fn_return_type, chk, lpc, cerr, lsize>>
         [] blk.role = "else" ->
              /\ IfDone(LRest, c1, Lowered(builder, val, NoMsg), TailOf(ty, val, blk.id), blk.tail)
              /\ UNCHANGED lsize
         [] OTHER ->
              LET e == LowerArmEnd(builder, parent, val)
                  mf == IF Lowering THEN e.mf ELSE parent
              IN  /\ chk' = c1
                  /\ LowerStep(Lowered(e.b, EmptyVal, NoMsg))
                  /\ lstack' = SetTop(LRest, [mf EXCEPT !.arms = Append(@, MatchArm(mf.pattern, ty))])
                  /\ UNCHANGED <<fn_return_type, lpc, cerr, lsize>>

\* no function has been given to the two passes
LowerIdle ==
    /\ fn_return_type = VOID
    /\ chk = NewChecker
    /\ builder = NewBuilder
    /\ lstack = <<>>
    /\ lpc = "idle"
    /\ cerr = "none" /\ lerr = "none"
    /\ lsize = 0

(***************************************************************************)
(* lowering.py: the dict env of the _Builder.  The body lowered is a       *)
(* sequence of statements `var x := 1`, `x = 1;`, `x += 1;`, `x;`, nested  *)
(* blocks, ifs over the condition `true` and matches over the target       *)
(* `true`, whose blocks have no tail, so that every if and match has the   *)
(* type Void.                                                              *)
(***************************************************************************)
MaxEnvTemps == 5     \* temporaries handed out by tmp()
MaxEnvDepth == 2     \* constructs the builder is inside

V_x ==
    <<"x">>
AOP_assign ==
    <<"=">>
AOP_plus ==
    <<"+","=">>
AOP_minus ==
    <<"-","=">>
AOP_star ==
    <<"*","=">>
AOP_slash ==
    <<"/","=">>
AOP_percent ==
    <<"%","=">>

\* the names the body declares and the operators of its assignments
\* (Parser._parse_assignment keeps the lexeme of the operator in AssignExpr.op)
EnvNames == {V_x, V_n}
AssignOps == {AOP_assign, AOP_plus, AOP_minus, AOP_star, AOP_slash, AOP_percent}

\* lower_expr on a LiteralExpr: the builder afterwards; the value returned is
\* the temporary handed out
LowerLiteral(b, value) == EmitTmp(b, "const", <<>>, value)

\* lower_expr on an IdentifierExpr
LowerIdentifier(e, name) == e[name]

\* lower_expr on AssignExpr(target = name, op, value = 1): the builder, env and
\* the value returned
LowerAssignExpr(b, e, name, op) ==
    LET value == TmpVal(b.temp_index) IN
    [b |-> LowerLiteral(b, L_one), env |-> Put(e, name, value), val |-> value]

\* lower_stmt on LetStmt(name, expr = 1)
LowerLetStmt(b, e, name) ==
    LET value == TmpVal(b.temp_index) IN
    [b |-> LowerLiteral(b, L_one), env |-> Put(e, name, value), val |-> value]

\* _bind_pattern on a pattern over the Bool target
BindPattern(e, pattern, target_val) ==
    IF pattern.k = "name" THEN Put(e, pattern.name, target_val) ELSE e

\* `self.env = old_env` without the assignment
RestoreEnvKeep(e, old_env) == e

\* `self.env = old_env` (`self.env = base_env`) at the end of lower_block, of
\* the IfExpr and of _lower_match_expr
RestoreEnv(e, old_env) == old_env

NoMatchFrame ==
    [target_val |-> NoneVal, end_bb |-> 0, test_bb |-> 0, cleared |-> FALSE, incoming |-> <<>>]

\* a construct the builder is inside: a block, the then block or the else
\* block of an if, or the block of a match arm; old_env is the copy of env the
\* construct took (old_env, base_env), seen the patterns of the arms so far
EnvFrame(k, old_env) ==
    [k |-> k, old_env |-> old_env, else_bb |-> 0, join_bb |-> 0, mf |-> NoMatchFrame,
     seen |-> {}]

\* what was lowered last
NoLast == [op |-> "none", k |-> "none", name |-> <<>>, aop |-> <<>>, val |-> NoneVal]
Last(op, k, name, aop, val) == [op |-> op, k |-> k, name |-> name, aop |-> aop, val |-> val]

\* no body is being lowered
EnvIdle == env = <<>> /\ env_frames = <<>> /\ env_last = NoLast

(***************************************************************************)
(* parser.py: _parse_block.  The tokens of the block are `{`, integer      *)
(* literals, `return`, NEWLINE, `;`, `}` and EOF, so that every expression *)
(* is one literal; spans are left out of the nodes.                        *)
(***************************************************************************)
MaxBodyTokens == 4     \* tokens between the braces of the block

Tok(kind, lexeme) == [kind |-> kind, lexeme |-> lexeme]

\* the AST nodes; NoneNode is None
NoneNode == [node |-> "None", value |-> <<>>]
LiteralExpr(value) == [node |-> "LiteralExpr", value |-> value]
ExprStmtNode(expr) == [node |-> "ExprStmt", expr |-> expr]
ReturnStmt(expr) == [node |-> "ReturnStmt", expr |-> expr]
BlockExpr(stmts, tail_expr) == [node |-> "BlockExpr", statements |-> stmts, tail |-> tail_expr]

\* a Parser inside _parse_block: its tokens and index i, the locals
\* statements and tail, where it is (pc) and whether it raised
ParserAt(toks, i, stmts, tail_expr, pc) ==
    [tokens |-> toks, i |-> i, statements |-> stmts, tail |-> tail_expr, pc |-> pc]

\* _peek().kind; the list is indexed from 0
PeekKind(p) == p.tokens[p.i + 1].kind
\* _check
Check(p, kind) == PeekKind(p) = kind
\* _advance
AdvanceToken(p) == [p EXCEPT !.i = @ + 1]

RECURSIVE SkipSeparators(_)
\* _skip_separators
SkipSeparators(p) ==
    IF PeekKind(p) \in {"NEWLINE", "SEMI"} THEN SkipSeparators(AdvanceToken(p)) ELSE p

\* _starts_stmt
StartsStmt(p) == PeekKind(p) \in {"LET", "VAR", "RETURN", "BREAK", "CONTINUE"}

ParseRaised(p) == [p EXCEPT !.pc = "raised"]

\* _parse_expr on these tokens: a literal, or "expected expression"
ParseExpr(p) ==
    IF PeekKind(p) = "INT"
    THEN [p |-> AdvanceToken(p), expr |-> LiteralExpr(p.tokens[p.i + 1].lexeme)]
    ELSE [p |-> ParseRaised(p), expr |-> NoneNode]

\* _parse_stmt on a `return`
ParseStmt(p) ==
    LET p1 == AdvanceToken(p) IN
    IF PeekKind(p1) \in {"SEMI", "NEWLINE", "RBRACE"}
    THEN [p |-> p1, stmt |-> ReturnStmt(NoneNode)]
    ELSE LET e == ParseExpr(p1) IN [p |-> e.p, stmt |-> ReturnStmt(e.expr)]

\* _parse_block up to the loop
BlockOpen(toks) ==
    LET p == ParserAt(toks, 0, <<>>, NoneNode, "loop") IN
    IF Check(p, "LBRACE") THEN SkipSeparators(AdvanceToken(p)) ELSE ParseRaised(p)

\* one turn of the loop of _parse_block that starts with a statement
BlockStmt(p) ==
    LET s == ParseStmt(p) IN
    IF s.p.pc = "raised" THEN s.p
    ELSE SkipSeparators([s.p EXCEPT !.statements = Append(@, s.stmt)])

\* one turn of the loop of _parse_block that starts with an expression
BlockExprTurn(p) ==
    LET e == ParseExpr(p)
        q == e.p
    IN  IF q.pc = "raised" THEN q
        ELSE IF Check(q, "SEMI")
        THEN SkipSeparators([AdvanceToken(q) EXCEPT !.statements = Append(@, ExprStmtNode(e.expr))])
        ELSE IF Check(q, "NEWLINE")
        THEN LET q1 == AdvanceToken(q) IN
             IF Check(q1, "RBRACE")
             THEN [q1 EXCEPT !.tail = e.expr, !.pc = "break"]
             ELSE SkipSeparators([q1 EXCEPT !.statements = Append(@, ExprStmtNode(e.expr))])
        ELSE [q EXCEPT !.tail = e.expr, !.pc = "break"]

\* _parse_block after the loop: the `}` is expected
BlockClose(p) ==
    IF Check(p, "RBRACE") THEN [AdvanceToken(p) EXCEPT !.pc = "returned"] ELSE ParseRaised(p)

\* the loop of _parse_block goes on
InLoop(p) == p.pc = "loop" /\ ~Check(p, "RBRACE")

RECURSIVE BlockLoop(_)
\* the loop of _parse_block, to its end
BlockLoop(p) ==
    IF ~InLoop(p) THEN p
    ELSE BlockLoop(IF StartsStmt(p) THEN BlockStmt(p) ELSE BlockExprTurn(p))

\* _parse_block: the parser when it returns or raises
ParseBlock(toks) ==
    LET p == BlockLoop(BlockOpen(toks)) IN
    IF p.pc = "raised" THEN p ELSE BlockClose(p)

\* the blocks parsed: `{`, up to MaxBodyTokens tokens, `}`, NEWLINE and EOF
BodyTokens ==
    {Tok("INT", L_one), Tok("INT", L_zero), Tok("RETURN", KW_return),
     Tok("NEWLINE", <<"\n">>), Tok("SEMI", <<";">>)}
Bodies == UNION {[1..n -> BodyTokens] : n \in 0..MaxBodyTokens}
BlockOf(body) ==
    <<Tok("LBRACE", <<"{">>)>> \o body
        \o <<Tok("RBRACE", <<"}">>), Tok("NEWLINE", <<"\n">>), Tok("EOF", <<>>)>>

\* lower_typed_program not running
LayoutIdle ==
    /\ typed = [enums |-> <<>>, functions |-> <<>>]
    /\ enum_keys = {} /\ enum_layouts = <<>> /\ layout_calls = <<>>
    /\ functions_ir = <<>> /\ fn_index = 0 /\ ypc = "idle" /\ irs = <<>>

\* no Lexer
LexIdle ==
    /\ lexer = [source |-> <<>>, pos |-> 0, line |-> 1, col |-> 1]
    /\ tokens = <<>> /\ lexpc = "idle"
    /\ lex_error = [type |-> "none", code |-> "none",
                    span |-> [start |-> 0, end |-> 0, line |-> 0, col |-> 0], token_start |-> 0]

\* resolve_names not running
ResolveIdle ==
    /\ program = <<>> /\ item_index = 0
    /\ resolution = [functions |-> <<>>, enums |-> <<>>, errors |-> <<>>, variants_by_name |-> <<>>]
    /\ rpc = "idle"
    /\ resolve_error = [kind |-> "none", name |-> <<>>, item |-> 0, code |-> "none"]

\* _load_program not running
LoadIdle ==
    /\ files = <<>> /\ parsed = {} /\ ordered_sources = <<>> /\ merged_items = <<>>
    /\ visiting = <<>> /\ frames = <<>> /\ parse_calls = <<>>
    /\ loadpc = "idle" /\ load_error = <<>>

\* no MidoriTerminal
TerminalIdle ==
    /\ session_declarations = <<>> /\ pending_declaration = <<>> /\ pending_brace_depth = 0
    /\ term_line = <<>> /\ term_branch = "idle" /\ term_source = <<>> /\ term_check = "none"
    /\ term_status = <<FALSE, 0>> /\ term_calls = 0

\* the command line not running
CliIdle == LoadIdle /\ TerminalIdle

\* no block is being parsed
ParseIdle ==
    /\ block_tokens = <<>> /\ block_pos = 0 /\ block_statements = <<>>
    /\ block_tail = NoneNode /\ parsepc = "idle"

\* neither the walk of env nor _parse_block running
EnvParseIdle == EnvIdle /\ ParseIdle

\* the passes modelled further down, not running
LaterPassesIdle ==
    /\ EnvParseIdle
    /\ LayoutIdle
    /\ LexIdle
    /\ ResolveIdle
    /\ CliIdle

NoEvent ==
    [kind |-> "none", op |-> "", name |-> "", gmoved |-> FALSE, gpassed |-> FALSE,
     gcopied |-> FALSE, pimm |-> FALSE, pmut |-> FALSE, entry |-> <<>>, exit |-> <<>>]

\* the borrow checker has not been run
BorrowIdle ==
    /\ states = <<>> /\ bstack = <<>> /\ bscope = <<>>
    /\ bev = NoEvent /\ berr = "none" /\ bsize = 0

\* run_borrow_check on one function fn(s: ty) whose body declares s and t
BorrowInit ==
    /\ states = InitStates
    /\ bstack = <<BlockFrame(InitStates)>>
    /\ bscope \in {[n \in {"s"} |-> GBinding(ty)] : ty \in ValueTypes}
    /\ bev = NoEvent
    /\ berr = "none"
    /\ bsize = 0
    /\ CheckIdle
    /\ LowerIdle
    /\ LaterPassesIdle

AllLeaves == LeavesOver(LocalNames \cup PatternNames)

BorrowNext ==
    \/ \E leaf \in AllLeaves : ExprStmt(leaf)
    \/ \E dst \in LocalNames, src \in LocalNames \cup PatternNames : LetIdent(dst, src)
    \/ \E dst \in LocalNames, leaf \in AllLeaves : LetExpr(dst, leaf)
    \/ BlockBegin
    \/ BlockEnd
    \/ \E leaf \in AllLeaves : IfBegin(leaf)
    \/ ElseNone
    \/ \E leaf \in AllLeaves : ElseExpr(leaf)
    \/ ElseBlock
    \/ \E leaf \in AllLeaves : MatchBegin(leaf)
    \/ \E pattern \in Patterns, leaf \in AllLeaves : ArmExpr(pattern, leaf)
    \/ \E pattern \in Patterns : ArmBlock(pattern)
    \/ MatchEnd

CheckInit ==
    /\ CheckIdle
    /\ BorrowIdle
    /\ LowerIdle
    /\ LaterPassesIdle

\* infer is tried on one expression: nothing has been given to it yet
Untried == cin.op = "none"

CheckNext ==
    \/ Untried /\ \E inner \in TryTypes, fn_ret \in TryTypes : InferTry(inner, fn_ret)
    \/ Untried /\ \E target_ty \in MatchTargets, arms \in ArmLists : InferMatchExpr(target_ty, arms)
    \/ Untried /\ \E op \in UnsupportedExprs : InferUnsupportedExpr(op)
    \/ Untried /\ \E params \in ParamLists, ret \in ReturnTypes, arg_types \in CallArgLists :
          InferCallExpr(params, ret, arg_types)

\* _check_function and _Builder at the start of the body of
\* fn f(r: Result[Int, String]) -> fn_return_type; the body BlockExpr is node 0
LowerInit ==
    /\ fn_return_type \in {INT, VOID, RES}
    /\ chk = NewNodes(NewChecker, 1)
    /\ builder = NewBuilder
    /\ lstack = <<LFrame("block", "body", 0, "", "open")>>
    /\ lpc = "walk"
    /\ cerr = "none" /\ lerr = "none"
    /\ lsize = 0
    /\ BorrowIdle
    /\ CheckIdle
    /\ LaterPassesIdle

\* the leaves tried as an expression statement, as the expression of a
\* return (none: a bare return), as the tail of a block, as an else branch
\* and as the expression of an arm
StmtLeaves == {"print", "try", "raise"}
ReturnLeaves == {"none", "int", "ident"}
TailLeaves == {"int", "ident", "try", "raise"}
ElseLeaves == {"int", "raise"}
ArmLeaves == {"int", "print"}

LowerNext ==
    \/ \E leaf \in StmtLeaves : LExprStmt(leaf)
    \/ \E leaf \in ReturnLeaves : LReturn(leaf)
    \/ \E leaf \in TailLeaves : LTail(leaf)
    \/ LBlockEnd
    \/ \E pos \in {"stmt", "tail"} : LIfBegin(pos)
    \/ LElseNone
    \/ \E leaf \in ElseLeaves : LElseLeaf(leaf)
    \/ LElseBlock
    \/ \E pos \in {"stmt", "tail"} : LMatchBegin(pos)
    \/ \E pattern \in LowerPatterns, leaf \in ArmLeaves : LArmLeaf(pattern, leaf)
    \/ \E pattern \in LowerPatterns : LArmBlock(pattern)
    \/ LMatchEnd

\* bounds of the programs whose layouts are built
MaxParams == 1
MaxExprTypes == 1
MaxRuns == 2

\* the types that occur in the signatures and expression tables
LayoutTypes ==
    {INT, STRING_TY, option_type(INT), result_type(INT, STRING_TY),
     option_type(option_type(INT)), Type(TN_Shape, <<>>), Type(TN_Wrap, <<>>),
     Type(TN_Option, <<>>)}

TypeLists(n) == UNION {[1..k -> LayoutTypes] : k \in 0..n}

FN_f ==
    <<"f">>
FN_main ==
    <<"m","a","i","n">>

\* checker.py TypedFunction: fn_type.ret, fn_type.params, expr_types.values(); lowers
\* tells whether lowering the body succeeds
TypedFunction(name, ret, params, expr_types, lowers) ==
    [name |-> name, ret |-> ret, params |-> params, expr_types |-> expr_types, lowers |-> lowers]

\* checker.py TypedProgram, functions in dict order:
\*   fn f(...) -> ret { ... }     fn main() -> Int { 0 }
TypedPrograms ==
    {[enums |-> ProgramEnums,
      functions |-> <<TypedFunction(FN_f, ret, params, expr_types, lowers),
                      TypedFunction(FN_main, INT, <<>>, <<INT>>, TRUE)>>] :
        ret \in LayoutTypes, params \in TypeLists(MaxParams),
        expr_types \in TypeLists(MaxExprTypes), lowers \in BOOLEAN}

\* mir.py ProgramIR, or the exception the run ended with
ProgramIR(fns, enums) == [ok |-> TRUE, functions |-> fns, enums |-> enums]
Raised == [ok |-> FALSE, functions |-> <<>>, enums |-> <<>>]

FirstPassesIdle == BorrowIdle /\ CheckIdle /\ LowerIdle

LayoutOnly == UNCHANGED <<bvars, cvars, lvars, NotLayout>>

\* the keys of the layouts built so far
BuiltKeys == {enum_layouts[i].key : i \in 1..Len(enum_layouts)}

\* lower_typed_program, first loop: one function's return type, parameter types
\* and expression types are collected
CollectFunction ==
    /\ LayoutOnly
    /\ ypc = "collect"
    /\ LET fn == typed.functions[fn_index]
           keys == enum_keys
                   \cup CollectTypeEnums(fn.ret, typed.enums)
                   \cup UNION {CollectTypeEnums(fn.params[i], typed.enums) :
                                 i \in 1..Len(fn.params)}
                   \cup UNION {CollectTypeEnums(fn.expr_types[i], typed.enums) :
                                 i \in 1..Len(fn.expr_types)}
           last == fn_index = Len(typed.functions)
       IN  /\ enum_keys' = keys
           /\ fn_index' = IF last THEN 1 ELSE fn_index + 1
           /\ ypc' = IF ~last THEN "collect"
                     ELSE IF keys = {} THEN "functions" ELSE "layouts"
    /\ UNCHANGED <<typed, enum_layouts, layout_calls, functions_ir, irs>>

\* the dict comprehension over the set enum_keys: the next key the set's
\* iteration yields (the order of a set of str depends on the process's hash
\* seed), and its layout
BuildLayout(key) ==
    /\ LayoutOnly
    /\ ypc = "layouts"
    /\ key \in enum_keys \ BuiltKeys
    /\ layout_calls' = Append(layout_calls, key)
    /\ LET r == LayoutForEnumKey(key, typed.enums)
       IN  IF r.raised
           THEN /\ ypc' = "crashed"
                /\ irs' = Append(irs, Raised)
                /\ UNCHANGED enum_layouts
           ELSE /\ enum_layouts' = Append(enum_layouts, r.layout)
                /\ ypc' = IF enum_keys \ BuiltKeys = {key} THEN "functions" ELSE "layouts"
                /\ UNCHANGED irs
    /\ UNCHANGED <<typed, enum_keys, functions_ir, fn_index>>

\* lower_typed_program, last loop: one function is lowered by a _Builder; after
\* the last one the ProgramIR is returned
LowerFunction ==
    /\ LayoutOnly
    /\ ypc = "functions"
    /\ LET fn == typed.functions[fn_index]
           last == fn_index = Len(typed.functions)
       IN  IF ~fn.lowers
           THEN /\ ypc' = "raised"
                /\ irs' = Append(irs, Raised)
                /\ UNCHANGED <<functions_ir, fn_index>>
           ELSE /\ functions_ir' = Append(functions_ir, fn.name)
                /\ fn_index' = IF last THEN fn_index ELSE fn_index + 1
                /\ ypc' = IF last THEN "returned" ELSE "functions"
                /\ irs' = IF last
                          THEN Append(irs, ProgramIR(functions_ir', enum_layouts))
                          ELSE irs
    /\ UNCHANGED <<typed, enum_keys, enum_layouts, layout_calls>>

\* the pipeline is run again on the same source
RunAgain ==
    /\ LayoutOnly
    /\ ypc \in {"returned", "raised", "crashed"}
    /\ Len(irs) < MaxRuns
    /\ enum_keys' = {} /\ enum_layouts' = <<>> /\ layout_calls' = <<>>
    /\ functions_ir' = <<>> /\ fn_index' = 1 /\ ypc' = "collect"
    /\ UNCHANGED <<typed, irs>>

LayoutInit ==
    /\ typed \in TypedPrograms
    /\ enum_keys = {} /\ enum_layouts = <<>> /\ layout_calls = <<>>
    /\ functions_ir = <<>> /\ fn_index = 1 /\ ypc = "collect" /\ irs = <<>>
    /\ FirstPassesIdle
    /\ EnvParseIdle
    /\ CliIdle
    /\ LexIdle
    /\ ResolveIdle

LayoutNext ==
    \/ CollectFunction
    \/ \E key \in enum_keys : BuildLayout(key)
    \/ LowerFunction
    \/ RunAgain

\* bound of the sources that are tokenized: an optional word followed by at most
\* MaxMarks characters
MaxMarks == 3

\* the reserved words of the language
ReservedWords ==
    {KW_fn, KW_let, KW_var, KW_struct, KW_enum, KW_trait, KW_impl,
     KW_pub, KW_import, KW_if, KW_else, KW_match, KW_for, KW_in,
     KW_while, KW_loop, KW_break, KW_continue, KW_return, KW_task, KW_spawn,
     KW_await, KW_unsafe, KW_extern, KW_error, KW_raise, KW_true, KW_false}

W_errors ==
    <<"e","r","r","o","r","s">>
W_Fail ==
    <<"F","a","i","l">>

LexWords == ReservedWords \cup {KW_use, KW_module, W_errors, W_Fail, <<>>}

LexMarks == {" ", "\n", "x", "1", ".", "\"", "'", "\\", "/", "*", "=", "@"}

Sources ==
    {word \o marks : word \in LexWords, marks \in UNION {[1..n -> LexMarks] : n \in 0..MaxMarks}}

NoLexError == [type |-> "none", code |-> "none", span |-> Span(0, 0, 0, 0), token_start |-> 0]

LexOnly == UNCHANGED <<bvars, cvars, lvars, NotLex>>

\* one iteration of the loop of Lexer.tokenize: blanks and comments are
\* skipped, a token is appended, or the scan raises
LexStep ==
    /\ LexOnly
    /\ lexpc = "scan"
    /\ ~AtEnd(lexer)
    /\ LET r == ScanOne(lexer)
       IN  /\ lexer' = r.lx
           /\ tokens' = IF r.k = "token" THEN Append(tokens, r.token) ELSE tokens
           /\ lexpc' = IF r.k \in {"token", "skip"} THEN "scan" ELSE "raised"
           /\ lex_error' =
                 CASE r.k = "MidoriError" ->
                        [type |-> "MidoriError", code |-> InferErrorCode(LexerModule, r.msg),
                         span |-> r.token.span, token_start |-> lexer.pos]
                   [] r.k = "IndexError" ->
                        [NoLexError EXCEPT !.type = "IndexError", !.token_start = lexer.pos]
                   [] OTHER -> lex_error

\* the end of Lexer.tokenize: the EOF token is appended and the list returned
LexEof ==
    /\ LexOnly
    /\ lexpc = "scan"
    /\ AtEnd(lexer)
    /\ tokens' = Append(tokens, Token("EOF", <<>>,
                                      Span(lexer.pos, lexer.pos, lexer.line, lexer.col)))
    /\ lexpc' = "returned"
    /\ UNCHANGED <<lexer, lex_error>>

LexInit ==
    /\ lexer \in {NewLexer(source) : source \in Sources}
    /\ tokens = <<>> /\ lex_error = NoLexError /\ lexpc = "scan"
    /\ FirstPassesIdle
    /\ EnvParseIdle
    /\ CliIdle
    /\ LayoutIdle
    /\ ResolveIdle

LexNext == LexStep \/ LexEof

(***************************************************************************)
(* resolver.py: resolve_names.                                             *)
(***************************************************************************)
ResolverModule == "midori_typecheck.resolver"

Quoted(name) == <<" ", "'">> \o name \o <<"'">>
M_in_enum ==
    <<" ","i","n"," ","e","n","u","m">>

\* bounds of the programs that are resolved
MaxItems == 4
MaxVariants == 2

\* ast.py: the items of a program
FunctionDecl(name) == [k |-> "fn", name |-> name, variants |-> <<>>]
EnumDecl(name, variants) == [k |-> "enum", name |-> name, variants |-> variants]
ErrorDecl(name) == [k |-> "error", name |-> name, variants |-> <<>>]
StructDecl(name) == [k |-> "struct", name |-> name, variants |-> <<>>]

\* the names that are declared
V_A ==
    <<"A">>
V_X ==
    <<"X">>
V_Y ==
    <<"Y">>
ItemNames == {FN_main, V_A}
VariantNames == {V_X, V_Y}
VariantLists == UNION {[1..n -> VariantNames] : n \in 1..MaxVariants}

Items ==
    {FunctionDecl(n) : n \in ItemNames} \cup {ErrorDecl(n) : n \in ItemNames}
    \cup {EnumDecl(n, vs) : n \in ItemNames, vs \in VariantLists}
    \cup {StructDecl(V_A)}

Programs == UNION {[1..n -> Items] : n \in 0..MaxItems}

\* Resolution, the dicts in insertion order: functions and errors as the list
\* of their keys, enums as the list of EnumSymbol (name, variants: the list of
\* the variant names, a variant's index its place), variants_by_name as a
\* function from the variant name to the list of (enum name, index)
NewResolution == [functions |-> <<>>, enums |-> <<>>, errors |-> <<>>, variants_by_name |-> <<>>]

Keys(list) == {list[i] : i \in 1..Len(list)}
EnumNames(res) == {res.enums[i].name : i \in 1..Len(res.enums)}

NoResolveError == [kind |-> "none", name |-> <<>>, item |-> 0, code |-> "none"]
ResolveError(kind, name, item, msg) ==
    [kind |-> kind, name |-> name, item |-> item, code |-> InferErrorCode(ResolverModule, msg)]

\* the outcome of one iteration of the loop over program.items
Resolved(res) == [res |-> res, err |-> NoResolveError]
Rejected(res, err) == [res |-> res, err |-> err]

\* the loop over item.variants from the i-th on: variants is the dict built so
\* far (its keys in order), by_name is variants_by_name
RECURSIVE ResolveVariants(_, _, _, _, _)
ResolveVariants(item, at, i, variants, by_name) ==
    IF i > Len(item.variants) THEN [variants |-> variants, by_name |-> by_name, err |-> NoResolveError]
    ELSE LET name == item.variants[i]
         IN  IF name \in Keys(variants)
             THEN [variants |-> variants, by_name |-> by_name,
                   err |-> ResolveError("variant", name, at,
                                        N_duplicate_enum_variant \o Quoted(name)
                                        \o M_in_enum \o Quoted(item.name))]
             ELSE LET entry == <<item.name, i - 1>>
                      listed == IF name \in DOMAIN by_name THEN by_name[name] ELSE <<>>
                  IN  ResolveVariants(item, at, i + 1, Append(variants, name),
                                      [n \in DOMAIN by_name \cup {name} |->
                                          IF n = name THEN Append(listed, entry) ELSE by_name[n]])

\* one iteration of the loop of resolve_names with one namespace for the
\* functions, enums and custom errors
ResolveItemOneNamespace(res, item, at) ==
    LET taken == Keys(res.functions) \cup EnumNames(res) \cup Keys(res.errors)
    IN  CASE item.k = "fn" ->
               IF item.name \in taken
               THEN Rejected(res, ResolveError("function", item.name, at,
                                               N_duplicate_function \o Quoted(item.name)))
               ELSE Resolved([res EXCEPT !.functions = Append(@, item.name)])
          [] item.k = "enum" ->
               IF item.name \in taken
               THEN Rejected(res, ResolveError("enum", item.name, at,
                                               N_duplicate_enum \o Quoted(item.name)))
               ELSE LET vs == ResolveVariants(item, at, 1, <<>>, res.variants_by_name)
                        res1 == [res EXCEPT !.variants_by_name = vs.by_name]
                    IN  IF vs.err # NoResolveError THEN Rejected(res1, vs.err)
                        ELSE Resolved([res1 EXCEPT !.enums =
                                         Append(@, [name |-> item.name, variants |-> vs.variants])])
          [] item.k = "error" ->
               IF item.name \in taken
               THEN Rejected(res, ResolveError("error", item.name, at,
                                               N_duplicate_custom_error \o Quoted(item.name)))
               ELSE Resolved([res EXCEPT !.errors = Append(@, item.name)])
          [] OTHER -> Resolved(res)

\* one iteration of the loop of resolve_names: item is program.items[at]
ResolveItem(res, item, at) ==
    CASE item.k = "fn" ->
           IF item.name \in Keys(res.functions)
           THEN Rejected(res, ResolveError("function", item.name, at,
                                           N_duplicate_function \o Quoted(item.name)))
           ELSE Resolved([res EXCEPT !.functions = Append(@, item.name)])
      [] item.k = "enum" ->
           IF item.name \in EnumNames(res)
           THEN Rejected(res, ResolveError("enum", item.name, at,
                                           N_duplicate_enum \o Quoted(item.name)))
           ELSE LET vs == ResolveVariants(item, at, 1, <<>>, res.variants_by_name)
                    res1 == [res EXCEPT !.variants_by_name = vs.by_name]
                IN  IF vs.err # NoResolveError THEN Rejected(res1, vs.err)
                    ELSE Resolved([res1 EXCEPT !.enums =
                                     Append(@, [name |-> item.name, variants |-> vs.variants])])
      [] item.k = "error" ->
           IF item.name \in Keys(res.errors)
           THEN Rejected(res, ResolveError("error", item.name, at,
                                           N_duplicate_custom_error \o Quoted(item.name)))
           ELSE Resolved([res EXCEPT !.errors = Append(@, item.name)])
      [] OTHER -> Resolved(res)

ResolveOnly == UNCHANGED <<bvars, cvars, lvars, NotResolve>>

\* resolve_names: one iteration of the loop over program.items
ResolveStep ==
    /\ ResolveOnly
    /\ rpc = "items"
    /\ item_index <= Len(program)
    /\ LET r == ResolveItem(resolution, program[item_index], item_index)
       IN  /\ resolution' = r.res
           /\ resolve_error' = r.err
           /\ rpc' = IF r.err = NoResolveError THEN "items" ELSE "raised"
           /\ item_index' = IF r.err = NoResolveError THEN item_index + 1 ELSE item_index
    /\ UNCHANGED program

\* resolve_names after the loop: main is looked up and the Resolution returned
ResolveReturn ==
    /\ ResolveOnly
    /\ rpc = "items"
    /\ item_index > Len(program)
    /\ IF FN_main \notin Keys(resolution.functions)
       THEN /\ rpc' = "raised"
            /\ resolve_error' = ResolveError("main", FN_main, 0,
                                             N_missing_entry_point \o Quoted(FN_main))
       ELSE /\ rpc' = "returned"
            /\ UNCHANGED resolve_error
    /\ UNCHANGED <<program, item_index, resolution>>

ResolveInit ==
    /\ program \in Programs
    /\ item_index = 1 /\ resolution = NewResolution
    /\ rpc = "items" /\ resolve_error = NoResolveError
    /\ FirstPassesIdle
    /\ EnvParseIdle
    /\ CliIdle
    /\ LayoutIdle
    /\ LexIdle

ResolveNext == ResolveStep \/ ResolveReturn

(***************************************************************************)
(* pipeline.py: _load_program, the loading of a file and its imports.      *)
(***************************************************************************)
PipelineModule == "midori_cli.pipeline"

M_import_cycle ==
    <<"i","m","p","o","r","t"," ","c","y","c","l","e"," ","d","e","t","e","c","t","e","d",":"," ">>
M_import_not_found ==
    <<"i","m","p","o","r","t"," ","f","i","l","e"," ","n","o","t"," ","f","o","u","n","d",":"," ">>
M_arrow ==
    <<" ","-",">"," ">>

\* bounds of the import graphs that are loaded
MaxImports == 2

\* the normalized paths of the files that exist, by name, and a path at
\* which there is no file
FileNames == {<<"a",".","m","d","r">>, <<"b",".","m","d","r">>, <<"c",".","m","d","r">>}
Entry == <<"a",".","m","d","r">>
MissingFile == <<"z",".","m","d","r">>
ImportTargets == FileNames \cup {MissingFile}

\* ast.py: the items of a parsed file: its imports, then one declaration
ImportDecl(path) == [k |-> "import", path |-> path]
Decl(file) == [k |-> "decl", path |-> file]

ImportLists == UNION {[1..n -> ImportTargets] : n \in 0..MaxImports}

\* _parse_file(path) for every file: the program's items
FileSystems ==
    {[f \in FileNames |-> [i \in 1..(Len(imports[f]) + 1) |->
                              IF i <= Len(imports[f]) THEN ImportDecl(imports[f][i]) ELSE Decl(f)]] :
        imports \in [FileNames -> ImportLists]}

\* " -> ".join(p.name for p in paths)
RECURSIVE JoinArrow(_)
JoinArrow(paths) ==
    IF paths = <<>> THEN <<>>
    ELSE IF Len(paths) = 1 THEN paths[1]
    ELSE paths[1] \o M_arrow \o JoinArrow(Tail(paths))

\* the head of visit(path) without the test `path in parsed`
VisitAlways(path, parsed_files, visiting_list) ==
    IF \E i \in 1..Len(visiting_list) : visiting_list[i] = path
    THEN [k |-> "raise", msg |-> M_import_cycle \o JoinArrow(Append(visiting_list, path))]
    ELSE IF path \notin FileNames
    THEN [k |-> "raise", msg |-> M_import_not_found \o path]
    ELSE [k |-> "parse", msg |-> NoMsg]

\* the head of visit(path): return at once, raise, or parse the file
Visit(path, parsed_files, visiting_list) ==
    IF path \in parsed_files THEN [k |-> "return", msg |-> NoMsg]
    ELSE IF \E i \in 1..Len(visiting_list) : visiting_list[i] = path
    THEN [k |-> "raise", msg |-> M_import_cycle \o JoinArrow(Append(visiting_list, path))]
    ELSE IF path \notin FileNames
    THEN [k |-> "raise", msg |-> M_import_not_found \o path]
    ELSE [k |-> "parse", msg |-> NoMsg]

\* only the state of _load_program changes
LoadOnly == UNCHANGED <<bvars, cvars, lvars, NotLoad>>

\* the items of a program that are not imports, in order
NonImportItems(items) == SelectSeq(items, LAMBDA item : item.k # "import")

\* the call of visit that is running, and the calls below it with the
\* running one's loop moved to its next item
TopFrame == frames[Len(frames)]
Advanced ==
    IF frames = <<>> THEN frames
    ELSE [frames EXCEPT ![Len(frames)].at = @ + 1]

\* visit(path) up to its first loop, called from the item the caller is at
EnterVisit(path, outcome) ==
    LET r == Visit(path, parsed, visiting)
    IN  /\ r.k = outcome
        /\ CASE outcome = "return" ->
                  /\ frames' = Advanced
                  /\ UNCHANGED <<parsed, ordered_sources, merged_items, visiting, parse_calls,
                                 loadpc, load_error>>
             [] outcome = "raise" ->
                  /\ frames' = <<>>
                  /\ loadpc' = "raised"
                  /\ load_error' = r.msg
                  /\ UNCHANGED <<parsed, ordered_sources, merged_items, visiting, parse_calls>>
             [] outcome = "parse" ->
                  /\ parse_calls' = [parse_calls EXCEPT ![path] = @ + 1]
                  /\ visiting' = Append(visiting, path)
                  /\ frames' = Append(Advanced, [path |-> path, at |-> 1])
                  /\ loadpc' = "visiting"
                  /\ UNCHANGED <<parsed, ordered_sources, merged_items, load_error>>

\* visit(entry)
LoadVisitEntry ==
    /\ loadpc = "start"
    /\ \E outcome \in {"raise", "parse"} : EnterVisit(Entry, outcome)
    /\ UNCHANGED files
    /\ LoadOnly

AtImport ==
    /\ loadpc = "visiting"
    /\ TopFrame.at <= Len(files[TopFrame.path])
    /\ files[TopFrame.path][TopFrame.at].k = "import"

\* the first loop of visit at an import of a file that is already in parsed
LoadImportParsed ==
    /\ AtImport
    /\ EnterVisit(files[TopFrame.path][TopFrame.at].path, "return")
    /\ UNCHANGED files
    /\ LoadOnly

\* the first loop of visit at an import of a file that is being visited or
\* does not exist
LoadImportRaise ==
    /\ AtImport
    /\ EnterVisit(files[TopFrame.path][TopFrame.at].path, "raise")
    /\ UNCHANGED files
    /\ LoadOnly

\* the first loop of visit at an import of a file not seen before
LoadImportFile ==
    /\ AtImport
    /\ EnterVisit(files[TopFrame.path][TopFrame.at].path, "parse")
    /\ UNCHANGED files
    /\ LoadOnly

\* the first loop of visit at an item that is not an import
LoadSkipItem ==
    /\ loadpc = "visiting"
    /\ TopFrame.at <= Len(files[TopFrame.path])
    /\ files[TopFrame.path][TopFrame.at].k # "import"
    /\ frames' = Advanced
    /\ UNCHANGED <<files, parsed, ordered_sources, merged_items, visiting, parse_calls,
                   loadpc, load_error>>
    /\ LoadOnly

\* visit after its first loop: the file is recorded and its items are merged;
\* when this was visit(entry), _load_program returns
LoadFinishFile ==
    /\ loadpc = "visiting"
    /\ TopFrame.at > Len(files[TopFrame.path])
    /\ visiting' = SubSeq(visiting, 1, Len(visiting) - 1)
    /\ parsed' = parsed \cup {TopFrame.path}
    /\ ordered_sources' = Append(ordered_sources, TopFrame.path)
    /\ merged_items' = merged_items \o NonImportItems(files[TopFrame.path])
    /\ frames' = SubSeq(frames, 1, Len(frames) - 1)
    /\ loadpc' = IF Len(frames) = 1 THEN "returned" ELSE "visiting"
    /\ UNCHANGED <<files, parse_calls, load_error>>
    /\ LoadOnly

LoadInit ==
    /\ FirstPassesIdle
    /\ EnvParseIdle
    /\ LayoutIdle
    /\ LexIdle
    /\ ResolveIdle
    /\ TerminalIdle
    /\ files \in FileSystems
    /\ parsed = {} /\ ordered_sources = <<>> /\ merged_items = <<>>
    /\ visiting = <<>> /\ frames = <<>>
    /\ parse_calls = [f \in FileNames |-> 0]
    /\ loadpc = "start" /\ load_error = <<>>

LoadNext ==
    \/ LoadVisitEntry
    \/ LoadImportParsed
    \/ LoadImportRaise
    \/ LoadImportFile
    \/ LoadSkipItem
    \/ LoadFinishFile

(***************************************************************************)
(* terminal.py: the interactive terminal's session of declarations.        *)
(***************************************************************************)
\* the lines typed into the terminal
T_error_decl ==
    <<"e", "r", "r", "o", "r", " ", "T", "o", "o", "B", "i", "g">>
T_fn_open ==
    <<"f", "n", " ", "f", "(", ")", " ", "-", ">", " ", "I", "n", "t", " ", "{">>
T_close ==
    <<"}">>
T_fn_comment_brace ==
    <<"f", "n", " ", "g", "(", ")", " ", "-", ">", " ", "I", "n", "t", " ", "{", " ", "0", " ", "}", " ", "/", "/", " ", "}">>
T_close_twice ==
    <<" ", " ", "0", " ", "}", "}">>
T_cancel ==
    <<":", "c", "a", "n", "c", "e", "l">>
T_c ==
    <<":", "c">>
T_blank ==
    <<>>
T_expr ==
    <<"f", "(", ")">>
T_main_open ==
    <<"f", "n", " ", "m", "a", "i", "n", "(", ")", " ", "-", ">", " ", "I", "n", "t", " ", "{">>
T_reset ==
    <<":", "r", "e", "s", "e", "t">>
T_print_brace ==
    <<" ", " ", "p", "r", "i", "n", "t", "(", "\"", "{", "\"", ")">>
T_quit ==
    <<":", "q", "u", "i", "t">>
T_shell ==
    <<"!", "l", "s">>
TermLines ==
    {T_error_decl,
     T_fn_open,
     T_close,
     T_fn_comment_brace,
     T_close_twice,
     T_cancel,
     T_c,
     T_blank,
     T_expr,
     T_main_open,
     T_reset,
     T_print_brace,
     T_quit,
     T_shell}

\* DECLARATION_START_RE
DeclarationWords == {KW_error, KW_fn, KW_struct, KW_enum, KW_trait, KW_extern}
STUB_MAIN ==
    <<"f", "n", " ", "m", "a", "i", "n", "(", ")", " ", "-", ">", " ", "I", "n", "t", " ", "{", "\n", " ", " ", "0", "\n", "}", "\n">>
W_main ==
    <<"m", "a", "i", "n">>

IsSpace(c) == c \in {" ", "\n", "\t"}
IsWordChar(c) == IsAlnum(c) \/ c = "_"

RECURSIVE StripWs(_)
\* s.strip()
StripWs(s) ==
    IF s = <<>> THEN s
    ELSE IF IsSpace(s[1]) THEN StripWs(Tail(s))
    ELSE IF IsSpace(s[Len(s)]) THEN StripWs(SubSeq(s, 1, Len(s) - 1))
    ELSE s

RECURSIVE RStrip(_)
\* s.rstrip()
RStrip(s) ==
    IF s # <<>> /\ IsSpace(s[Len(s)]) THEN RStrip(SubSeq(s, 1, Len(s) - 1)) ELSE s

RECURSIVE RStripNewline(_)
\* s.rstrip("\n")
RStripNewline(s) ==
    IF s # <<>> /\ s[Len(s)] = "\n" THEN RStripNewline(SubSeq(s, 1, Len(s) - 1)) ELSE s

RECURSIVE JoinWith(_, _)
\* sep.join(parts)
JoinWith(sep, parts) ==
    IF parts = <<>> THEN <<>>
    ELSE IF Len(parts) = 1 THEN parts[1]
    ELSE parts[1] \o sep \o JoinWith(sep, Tail(parts))

RECURSIVE BraceScan(_, _, _, _, _)
\* the loop of _brace_delta from character i on
BraceScan(line, i, depth, in_string, escaped) ==
    IF i > Len(line) THEN depth
    ELSE LET ch == line[i]
         IN  IF in_string
             THEN IF escaped THEN BraceScan(line, i + 1, depth, TRUE, FALSE)
                  ELSE IF ch = "\\" THEN BraceScan(line, i + 1, depth, TRUE, TRUE)
                  ELSE IF ch = "\"" THEN BraceScan(line, i + 1, depth, FALSE, FALSE)
                  ELSE BraceScan(line, i + 1, depth, TRUE, FALSE)
             ELSE IF ch = "\"" THEN BraceScan(line, i + 1, depth, TRUE, escaped)
                  ELSE IF ch = "{" THEN BraceScan(line, i + 1, depth + 1, FALSE, escaped)
                  ELSE IF ch = "}" THEN BraceScan(line, i + 1, depth - 1, FALSE, escaped)
                  ELSE BraceScan(line, i + 1, depth, FALSE, escaped)

\* _brace_delta
BraceDelta(line) == BraceScan(line, 1, 0, FALSE, FALSE)

\* _looks_like_declaration_start: a declaration word, then a word boundary
LooksLikeDeclarationStart(line) ==
    \E w \in DeclarationWords :
        /\ StartsWith(line, w)
        /\ Len(line) = Len(w) \/ ~IsWordChar(line[Len(w) + 1])

RECURSIVE SkipSpace(_, _)
\* the index of the first character of s from i on that is not whitespace
SkipSpace(s, i) ==
    IF i <= Len(s) /\ IsSpace(s[i]) THEN SkipSpace(s, i + 1) ELSE i

\* whether word w stands in s at index i
WordAt(s, i, w) == i + Len(w) - 1 <= Len(s) /\ SubSeq(s, i, i + Len(w) - 1) = w

\* MAIN_FN_RE matched at the start of a line of source
MainFnAt(source, p) ==
    LET a == SkipSpace(source, p)
        b == SkipSpace(source, a + 2)
        c == SkipSpace(source, b + 4)
    IN  /\ WordAt(source, a, KW_fn)
        /\ b > a + 2
        /\ WordAt(source, b, W_main)
        /\ WordAt(source, c, <<"(">>)

\* _contains_main_fn
ContainsMainFn(source) ==
    \E p \in 1..Len(source) :
        /\ p = 1 \/ source[p - 1] = "\n"
        /\ MainFnAt(source, p)

\* MidoriTerminal._program_has_main
ProgramHasMain(declarations) ==
    \E i \in 1..Len(declarations) : ContainsMainFn(declarations[i])

\* MidoriTerminal._build_program_source
BuildProgramSource(declarations, with_stub_main) ==
    LET kept == SelectSeq(declarations, LAMBDA item : StripWs(item) # <<>>)
        parts == [i \in 1..Len(kept) |-> RStrip(kept[i])]
        all == IF with_stub_main /\ ~ProgramHasMain(parts) THEN Append(parts, STUB_MAIN) ELSE parts
    IN  RStrip(JoinWith(<<"\n", "\n">>, all)) \o <<"\n">>

\* the bound of the sessions: the number of lines typed
MaxCalls == 4

\* the exit statuses the programs and shell commands that are run end with
RunStatuses == {0, 1}

C_reset == <<"r", "e", "s", "e", "t">>
C_quit == <<"q", "u", "i", "t">>
C_q == <<"q">>
C_exit == <<"e", "x", "i", "t">>
C_cancel == <<"c", "a", "n", "c", "e", "l">>
C_c == <<"c">>

\* only the state of the terminal changes
TerminalOnly == UNCHANGED <<bvars, cvars, lvars, NotTerminal>>

\* shlex.split(payload) of a payload without quotes
Words(payload) == SelectSeq(Split(payload, " "), LAMBDA w : w # <<>>)

\* what every call of execute_line records
Called(line, branch, should_exit, status) ==
    /\ term_calls < MaxCalls
    /\ term_calls' = term_calls + 1
    /\ term_line' = line
    /\ term_branch' = branch
    /\ term_status' = <<should_exit, status>>

NoCheck == term_source' = <<>> /\ term_check' = "none"

\* MidoriTerminal._finish_declaration on the lines buffered; check_ok is
\* whether check_file accepts the source, run_status what the session's
\* program ends with when it is run
FinishDeclaration(line, branch, pending, check_ok, run_status) ==
    LET declaration == StripWs(JoinWith(<<"\n">>, pending))
        candidate == Append(session_declarations, declaration)
        source == BuildProgramSource(candidate, TRUE)
    IN  /\ pending_declaration' = <<>>
        /\ pending_brace_depth' = 0
        /\ IF declaration = <<>>
           THEN /\ Called(line, branch, FALSE, 0)
                /\ NoCheck
                /\ UNCHANGED session_declarations
           ELSE /\ term_source' = source
                /\ IF ~check_ok
                   THEN /\ term_check' = "failed"
                        /\ Called(line, branch, FALSE, 1)
                        /\ UNCHANGED session_declarations
                   ELSE /\ term_check' = "ok"
                        /\ session_declarations' = candidate
                        /\ Called(line, branch, FALSE,
                                  IF ContainsMainFn(declaration) THEN run_status ELSE 0)

\* execute_line on a blank line
ExecuteBlank(line) ==
    /\ pending_declaration = <<>>
    /\ StripWs(line) = <<>>
    /\ Called(line, "blank", FALSE, 0)
    /\ NoCheck
    /\ UNCHANGED <<session_declarations, pending_declaration, pending_brace_depth>>
    /\ TerminalOnly

\* execute_line on a line that starts with ":" : _execute_command, of which
\* :reset (_cmd_reset) changes the session
ExecuteCommand(line) ==
    LET stripped == StripWs(line)
        payload == StripWs(Tail(stripped))
        words == Words(payload)
        command == Lower(words[1])
        args == Tail(words)
    IN  /\ pending_declaration = <<>>
        /\ stripped # <<>>
        /\ stripped[1] = ":"
        /\ NoCheck
        /\ IF words = <<>>
           THEN /\ Called(line, "command", FALSE, 0)
                /\ UNCHANGED <<session_declarations, pending_declaration, pending_brace_depth>>
           ELSE IF command \in {C_quit, C_q, C_exit}
           THEN /\ Called(line, "command", TRUE, 0)
                /\ UNCHANGED <<session_declarations, pending_declaration, pending_brace_depth>>
           ELSE IF command = C_reset /\ args = <<>>
           THEN /\ Called(line, "command", FALSE, 0)
                /\ session_declarations' = <<>>
                /\ pending_declaration' = <<>>
                /\ pending_brace_depth' = 0
           ELSE IF command \in {C_cancel, C_c}
           THEN /\ Called(line, "command", FALSE, 0)
                /\ UNCHANGED <<session_declarations, pending_declaration, pending_brace_depth>>
           ELSE /\ Called(line, "command", FALSE, 2)
                /\ UNCHANGED <<session_declarations, pending_declaration, pending_brace_depth>>
        /\ TerminalOnly

\* execute_line on a line that starts with "!" : _cmd_shell
ExecuteShell(line, run_status) ==
    LET stripped == StripWs(line)
    IN  /\ pending_declaration = <<>>
        /\ stripped # <<>>
        /\ stripped[1] = "!"
        /\ Called(line, "shell", FALSE, IF StripWs(Tail(stripped)) = <<>> THEN 2 ELSE run_status)
        /\ NoCheck
        /\ UNCHANGED <<session_declarations, pending_declaration, pending_brace_depth>>
        /\ TerminalOnly

\* execute_line on the first line of a declaration: _begin_declaration
BeginDeclaration(line, check_ok, run_status) ==
    LET stripped == StripWs(line)
        pending == <<RStripNewline(line)>>
        depth == BraceDelta(line)
    IN  /\ pending_declaration = <<>>
        /\ stripped # <<>>
        /\ stripped[1] \notin {":", "!"}
        /\ LooksLikeDeclarationStart(stripped)
        /\ IF depth <= 0
           THEN FinishDeclaration(line, "begin", pending, check_ok, run_status)
           ELSE /\ pending_declaration' = pending
                /\ pending_brace_depth' = depth
                /\ Called(line, "begin", FALSE, 0)
                /\ NoCheck
                /\ UNCHANGED session_declarations
        /\ TerminalOnly

\* execute_line while a declaration is pending: _continue_declaration
ContinueDeclaration(line, check_ok, run_status) ==
    LET stripped == StripWs(line)
        pending == Append(pending_declaration, RStripNewline(line))
        depth == pending_brace_depth + BraceDelta(line)
    IN  /\ pending_declaration # <<>>
        /\ IF stripped \in {<<":">> \o C_cancel, <<":">> \o C_c}
           THEN /\ pending_declaration' = <<>>
                /\ pending_brace_depth' = 0
                /\ Called(line, "continue", FALSE, 0)
                /\ NoCheck
                /\ UNCHANGED session_declarations
           ELSE IF depth > 0
           THEN /\ pending_declaration' = pending
                /\ pending_brace_depth' = depth
                /\ Called(line, "continue", FALSE, 0)
                /\ NoCheck
                /\ UNCHANGED session_declarations
           ELSE IF depth < 0
           THEN /\ pending_declaration' = <<>>
                /\ pending_brace_depth' = 0
                /\ Called(line, "continue", FALSE, 2)
                /\ NoCheck
                /\ UNCHANGED session_declarations
           ELSE FinishDeclaration(line, "continue", pending, check_ok, run_status)
        /\ TerminalOnly

\* execute_line on any other line: _cmd_expr
ExecuteExpr(line, run_status) ==
    LET stripped == StripWs(line)
    IN  /\ pending_declaration = <<>>
        /\ stripped # <<>>
        /\ stripped[1] \notin {":", "!"}
        /\ ~LooksLikeDeclarationStart(stripped)
        /\ Called(line, "expr", FALSE,
                  IF ProgramHasMain(session_declarations) THEN 2 ELSE run_status)
        /\ NoCheck
        /\ UNCHANGED <<session_declarations, pending_declaration, pending_brace_depth>>
        /\ TerminalOnly

\* MidoriTerminal.__init__
TerminalInit ==
    /\ FirstPassesIdle
    /\ EnvParseIdle
    /\ LayoutIdle
    /\ LexIdle
    /\ ResolveIdle
    /\ LoadIdle
    /\ session_declarations = <<>>
    /\ pending_declaration = <<>>
    /\ pending_brace_depth = 0
    /\ term_line = <<>> /\ term_branch = "idle" /\ term_source = <<>> /\ term_check = "none"
    /\ term_status = <<FALSE, 0>> /\ term_calls = 0

TerminalNext ==
    \E line \in TermLines : \E check_ok \in BOOLEAN : \E run_status \in RunStatuses :
        \/ ExecuteBlank(line)
        \/ ExecuteCommand(line)
        \/ ExecuteShell(line, run_status)
        \/ BeginDeclaration(line, check_ok, run_status)
        \/ ContinueDeclaration(line, check_ok, run_status)
        \/ ExecuteExpr(line, run_status)

(***************************************************************************)
(* The steps of the builder over the body.                                 *)
(***************************************************************************)
\* these steps leave the data of the other passes alone
EnvOnly ==
    UNCHANGED <<bvars, cvars, fn_return_type, chk, lstack, lpc, cerr, lerr, lsize, NotEnv>>

EnvTop == env_frames[Len(env_frames)]
EnvRest == SubSeq(env_frames, 1, Len(env_frames) - 1)
EnvRoom(n) == builder.temp_index + n <= MaxEnvTemps
EnvDeeper == Len(env_frames) < MaxEnvDepth

\* lower_stmt(LetStmt): `var name := 1`
EnvLet(name) ==
    /\ EnvOnly
    /\ EnvRoom(1)
    /\ LET l == LowerLetStmt(builder, env, name) IN
       /\ builder' = l.b
       /\ env' = l.env
       /\ env_last' = Last("let", "stmt", name, <<>>, l.val)
    /\ UNCHANGED env_frames

\* lower_stmt(ExprStmt(AssignExpr)): `name op 1;` for a name the body declared
EnvAssign(name, op) ==
    /\ EnvOnly
    /\ EnvRoom(1)
    /\ name \in DOMAIN env
    /\ LET l == LowerAssignExpr(builder, env, name, op) IN
       /\ builder' = l.b
       /\ env' = l.env
       /\ env_last' = Last("assign", "stmt", name, op, l.val)
    /\ UNCHANGED env_frames

\* lower_stmt(ExprStmt(IdentifierExpr)): `name;`
EnvRead(name) ==
    /\ EnvOnly
    /\ name \in DOMAIN env
    /\ env_last' = Last("read", "stmt", name, <<>>, LowerIdentifier(env, name))
    /\ UNCHANGED <<builder, env, env_frames>>

\* lower_block, up to the first statement
EnvBlockBegin ==
    /\ EnvOnly
    /\ EnvDeeper
    /\ env_frames' = Append(env_frames, EnvFrame("block", env))
    /\ env_last' = Last("enter", "block", <<>>, <<>>, NoneVal)
    /\ UNCHANGED <<builder, env>>

\* lower_block, after the last statement
EnvBlockEnd ==
    /\ EnvOnly
    /\ env_frames # <<>> /\ EnvTop.k = "block"
    /\ env' = RestoreEnv(env, EnvTop.old_env)
    /\ env_frames' = EnvRest
    /\ env_last' = Last("leave", "block", <<>>, <<>>, EmptyVal)
    /\ UNCHANGED builder

\* lower_expr(IfExpr) up to the first statement of the then block
EnvIfBegin ==
    /\ EnvOnly
    /\ EnvDeeper /\ EnvRoom(1)
    /\ LET b1 == LowerLiteral(builder, L_true)
           then_bb == b1.block_index
           b2 == NewBlock(NewBlock(NewBlock(b1, "then"), "else"), "join")
           b3 == Terminate(b2, CondBranchInstr(TmpVal(builder.temp_index), then_bb, then_bb + 1))
       IN  /\ builder' = SetCurrent(b3, then_bb)
           /\ env_frames' = Append(env_frames,
                                   [EnvFrame("then", env) EXCEPT !.else_bb = then_bb + 1,
                                                                !.join_bb = then_bb + 2])
    /\ env_last' = Last("enter", "if", <<>>, <<>>, NoneVal)
    /\ UNCHANGED env

\* lower_expr(IfExpr) after the then block: up to the first statement of the
\* else block, or to the end when there is no else branch
EnvIfElse(has_else) ==
    /\ EnvOnly
    /\ env_frames # <<>> /\ EnvTop.k = "then"
    /\ LET e1 == RestoreEnv(env, EnvTop.old_env)
           b1 == SetCurrent(TerminateIfOpen(builder, BranchInstr(EnvTop.join_bb)), EnvTop.else_bb)
           b2 == SetCurrent(TerminateIfOpen(b1, BranchInstr(EnvTop.join_bb)), EnvTop.join_bb)
       IN  IF has_else
           THEN /\ builder' = b1
                /\ env' = EnvTop.old_env
                /\ env_frames' = Append(EnvRest, [EnvTop EXCEPT !.k = "else"])
                /\ env_last' = Last("enter", "else", <<>>, <<>>, NoneVal)
           ELSE /\ builder' = b2
                /\ env' = RestoreEnv(EnvTop.old_env, EnvTop.old_env)
                /\ env_frames' = EnvRest
                /\ env_last' = Last("leave", "if", <<>>, <<>>, EmptyVal)

\* lower_expr(IfExpr) after the else block
EnvIfEnd ==
    /\ EnvOnly
    /\ env_frames # <<>> /\ EnvTop.k = "else"
    /\ builder' = SetCurrent(TerminateIfOpen(builder, BranchInstr(EnvTop.join_bb)), EnvTop.join_bb)
    /\ env' = RestoreEnv(RestoreEnv(env, EnvTop.old_env), EnvTop.old_env)
    /\ env_frames' = EnvRest
    /\ env_last' = Last("leave", "if", <<>>, <<>>, EmptyVal)

\* _lower_match_expr up to the first statement of the block of the first arm
EnvMatchBegin(pattern) ==
    /\ EnvOnly
    /\ EnvDeeper /\ EnvRoom(3)
    /\ LET target_val == TmpVal(builder.temp_index)
           b1 == LowerLiteral(builder, L_true)
           b2 == NewBlock(b1, "match_end")
           mf == [NoMatchFrame EXCEPT !.target_val = target_val, !.end_bb = b1.block_index,
                                      !.test_bb = b1.current]
           arm == LowerArmStart(b2, mf, pattern)
       IN  /\ builder' = arm.b
           /\ env' = BindPattern(env, pattern, target_val)
           /\ env_frames' = Append(env_frames,
                                   [EnvFrame("arm", env) EXCEPT !.mf = arm.mf, !.seen = {pattern}])
    /\ env_last' = Last("enter", "match", <<>>, <<>>, NoneVal)

\* _lower_match_expr after the block of an arm, up to the first statement of
\* the block of the next arm
EnvMatchNextArm(pattern) ==
    /\ EnvOnly
    /\ env_frames # <<>> /\ EnvTop.k = "arm" /\ ~EnvTop.mf.cleared
    /\ EnvRoom(2)
    /\ LET done == LowerArmEnd(builder, EnvTop.mf, EmptyVal)
           arm == LowerArmStart(done.b, done.mf, pattern)
       IN  /\ builder' = arm.b
           /\ env' = BindPattern(EnvTop.old_env, pattern, EnvTop.mf.target_val)
           /\ env_frames' = Append(EnvRest, [EnvTop EXCEPT !.mf = arm.mf, !.seen = @ \cup {pattern}])
    /\ env_last' = Last("enter", "arm", <<>>, <<>>, NoneVal)

\* the arms so far make the match over Bool exhaustive
EnvExhaustive(frame) ==
    \/ frame.mf.cleared
    \/ {LiteralPattern(L_true), LiteralPattern(L_false)} \subseteq frame.seen

\* _lower_match_expr after the block of the last arm
EnvMatchEnd ==
    /\ EnvOnly
    /\ env_frames # <<>> /\ EnvTop.k = "arm" /\ EnvExhaustive(EnvTop)
    /\ LET done == LowerArmEnd(builder, EnvTop.mf, EmptyVal)
           b1 == TerminateIfOpen(done.b, BranchInstr(EnvTop.mf.end_bb))
       IN  builder' = SetCurrent(b1, EnvTop.mf.end_bb)
    /\ env' = RestoreEnv(RestoreEnv(env, EnvTop.old_env), EnvTop.old_env)
    /\ env_frames' = EnvRest
    /\ env_last' = Last("leave", "match", <<>>, <<>>, EmptyVal)

EnvInit ==
    /\ FirstPassesIdle
    /\ LaterPassesIdle

EnvNext ==
    \/ \E name \in EnvNames : EnvLet(name)
    \/ \E name \in EnvNames, op \in AssignOps : EnvAssign(name, op)
    \/ \E name \in EnvNames : EnvRead(name)
    \/ EnvBlockBegin
    \/ EnvBlockEnd
    \/ EnvIfBegin
    \/ \E has_else \in BOOLEAN : EnvIfElse(has_else)
    \/ EnvIfEnd
    \/ \E pattern \in LowerPatterns : EnvMatchBegin(pattern)
    \/ \E pattern \in LowerPatterns : EnvMatchNextArm(pattern)
    \/ EnvMatchEnd

(***************************************************************************)
(* The steps of _parse_block.                                              *)
(***************************************************************************)
ParseOnly == UNCHANGED <<bvars, cvars, lvars, NotParse>>

\* the parser as the variables have it
ParserNow == ParserAt(block_tokens, block_pos, block_statements, block_tail, parsepc)

\* the parser becomes p
ParserBecomes(p) ==
    /\ block_pos' = p.i
    /\ block_statements' = p.statements
    /\ block_tail' = p.tail
    /\ parsepc' = p.pc
    /\ UNCHANGED block_tokens

\* _expect(LBRACE) and _skip_separators
ParseBlockOpen ==
    /\ ParseOnly
    /\ parsepc = "block"
    /\ ParserBecomes(BlockOpen(block_tokens))

\* a turn of the loop: a statement
ParseBlockStmt ==
    /\ ParseOnly
    /\ InLoop(ParserNow) /\ StartsStmt(ParserNow)
    /\ ParserBecomes(BlockStmt(ParserNow))

\* a turn of the loop: an expression
ParseBlockExpr ==
    /\ ParseOnly
    /\ InLoop(ParserNow) /\ ~StartsStmt(ParserNow)
    /\ ParserBecomes(BlockExprTurn(ParserNow))

\* the loop is over: _expect(RBRACE) and the BlockExpr is returned
ParseBlockClose ==
    /\ ParseOnly
    /\ parsepc = "break" \/ (parsepc = "loop" /\ Check(ParserNow, "RBRACE"))
    /\ ParserBecomes(BlockClose(ParserNow))

ParseInit ==
    /\ FirstPassesIdle
    /\ LayoutIdle /\ LexIdle /\ ResolveIdle /\ CliIdle /\ EnvIdle
    /\ block_tokens \in {BlockOf(body) : body \in Bodies}
    /\ block_pos = 0 /\ block_statements = <<>> /\ block_tail = NoneNode
    /\ parsepc = "block"

ParseNext ==
    \/ ParseBlockOpen
    \/ ParseBlockStmt
    \/ ParseBlockExpr
    \/ ParseBlockClose

(***************************************************************************)
(* Specifications: one per pass.                                           *)
(***************************************************************************)
vars == <<bvars, cvars, lvars, NotBorrowCheckLower>>

SpecBorrow == BorrowInit /\ [][BorrowNext]_vars

SpecCheck == CheckInit /\ [][CheckNext]_vars

SpecLower == LowerInit /\ [][LowerNext]_vars

SpecLayout == LayoutInit /\ [][LayoutNext]_vars

SpecLex == LexInit /\ [][LexNext]_vars

SpecResolve == ResolveInit /\ [][ResolveNext]_vars

SpecLoad == LoadInit /\ [][LoadNext]_vars /\ WF_vars(LoadNext)

SpecTerminal == TerminalInit /\ [][TerminalNext]_vars

SpecEnv == EnvInit /\ [][EnvNext]_vars

SpecParse == ParseInit /\ [][ParseNext]_vars

(***************************************************************************)
(* Claims about the borrow checker.                                        *)
(***************************************************************************)

\* C1: a read of a binding that was the bare initializer of an earlier let on
\* this path (or in a branch of an if/match that is complete) is rejected
\* with MD4001 when the binding's type is not copy, and is not rejected as a
\* use after move when the type is copy.
C1_UseAfterMoveRejected ==
    bev.kind = "read" =>
        /\ bev.gmoved => berr = "MD4001"
        /\ bev.gcopied => berr # "MD4001"

\* C2: within one block and for a binding that was not moved: a borrow after
\* `&x` is rejected with MD4002 if it is `&mut x` and accepted if it is `&x`;
\* after `&mut x`, `&x` is rejected with MD4003, `&mut x` with MD4002 and a
\* read of x with MD4005.
C2_BorrowConflicts ==
    ~bev.gmoved =>
        /\ bev.kind = "borrow" /\ bev.op = "&mut" /\ (bev.pimm \/ bev.pmut)
              => berr = "MD4002"
        /\ bev.kind = "borrow" /\ bev.op = "&" /\ bev.pmut => berr = "MD4003"
        /\ bev.kind = "borrow" /\ bev.op = "&" /\ bev.pimm /\ ~bev.pmut => berr = "none"
        /\ bev.kind = "read" /\ bev.pmut => berr = "MD4005"

\* C3: when _check_block returns, every variable's imm_borrows and mut_borrow
\* are what they were when the block was entered.
C3_BorrowsReleasedAtBlockEnd ==
    bev.kind = "blockend" =>
        \A n \in DOMAIN bev.entry :
            /\ n \in DOMAIN bev.exit
            /\ bev.exit[n].imm_borrows = bev.entry[n].imm_borrows
            /\ bev.exit[n].mut_borrow = bev.entry[n].mut_borrow

\* C4: a read of a binding of non-copy type that was passed by value to a call
\* earlier on this path is rejected with MD4001.
C4_CallArgumentMoved ==
    bev.kind = "read" /\ bev.gpassed => berr = "MD4001"

(***************************************************************************)
(* Claims about the branches of the borrow checker.                        *)
(***************************************************************************)
\* the step ends an if or a match: the IfExpr / MatchExpr activation that is
\* closed by it
Merges == Len(bstack') < Len(bstack) /\ bstack[Len(bstack') + 1].k \in {"if", "match"}
Merged == bstack[Len(bstack') + 1]

\* the variables that existed when the if / match was entered
AtEntry(frame) == (DOMAIN frame.base) \cap (DOMAIN frame.gbase)

\* every branch starts from the state at entry
BranchesStartFromEntry ==
    /\ BRunning /\ BTop.k = "if" /\ BTop.phase = "else" => states = BTop.base
    /\ BRunning /\ BTop.k = "match" /\ BTop.phase = "arms" => states = BTop.base

\* after an if / match a variable is moved iff it was moved before or a branch
\* moved it
MovedIsUnion ==
    Merges /\ berr' = "none" =>
        \A n \in AtEntry(Merged) :
            states'[n].moved <=> (Merged.base[n].moved \/ bscope'[n].moved)

\* after a match, the imm_borrows of a variable is the maximum, and its
\* mut_borrow the disjunction, over the state at entry and the arms
BorrowsAreUnion ==
    Merges /\ Merged.k = "match" /\ berr' = "none" =>
        \A n \in AtEntry(Merged) :
            LET ends == {Merged.branches[i][n] : i \in 1..Len(Merged.branches)} IN
            /\ states'[n].imm_borrows =
                  MaxOf({Merged.base[n].imm_borrows} \cup {e.imm_borrows : e \in ends})
            /\ states'[n].mut_borrow <=>
                  (Merged.base[n].mut_borrow \/ \E e \in ends : e.mut_borrow)

\* C23: each branch of an if and each arm of a match starts from a copy of
\* the state at entry, and after the if / match, for every variable that
\* existed at entry, moved is true iff it was moved before or in at least
\* one branch, imm_borrows is the maximum over entry and branches, and
\* mut_borrow the disjunction.
C23_BranchMerge ==
    /\ []BranchesStartFromEntry
    /\ [][MovedIsUnion /\ BorrowsAreUnion]_vars

\* C28: no variable is mutably borrowed while its imm_borrows is above 0, and
\* no imm_borrows is negative, in the dict the checker works on and in the
\* dicts of the branches it has collected.
C28_BorrowStateInvariant ==
    LET Fine(st) == \A n \in DOMAIN st :
                        /\ ~(st[n].mut_borrow /\ st[n].imm_borrows > 0)
                        /\ st[n].imm_borrows >= 0
    IN  /\ Fine(states)
        /\ \A i \in 1..Len(bstack) :
              /\ Fine(bstack[i].base)
              /\ \A j \in 1..Len(bstack[i].branches) : Fine(bstack[i].branches[j])

(***************************************************************************)
(* Claims about the type checker.                                          *)
(***************************************************************************)

\* the patterns of the arms check against the target and the arm types agree,
\* so that exhaustiveness is all that is left to decide
ArmsCheck(target_ty, arms) ==
    /\ arms # <<>>
    /\ \A i \in 1..Len(arms) : CheckPattern(arms[i].pattern, target_ty, Enums).msg = NoMsg
    /\ \A i \in 2..Len(arms) : EnsureAssignable(arms[1].ty, arms[i].ty) = NoMsg

\* the variants of the target type when it is an enum (user enum, Option, Result)
IsEnumTarget(target_ty) == ~EnumVariantsForType(target_ty, Enums).isnone
VariantsOf(target_ty) == EnumVariantsForType(target_ty, Enums).variants
PayloadLess(target_ty, name) ==
    /\ IsEnumTarget(target_ty)
    /\ name \in DOMAIN VariantsOf(target_ty)
    /\ VariantsOf(target_ty)[name].field_types = <<>>

\* cases (a), (b), (c)
ExhaustiveByCatchAll(target_ty, arms) ==
    \E i \in 1..Len(arms) :
        \/ arms[i].pattern.k = "wild"
        \/ arms[i].pattern.k = "name" /\ ~PayloadLess(target_ty, arms[i].pattern.name)
ExhaustiveByBool(target_ty, arms) ==
    /\ target_ty = BOOL
    /\ \A v \in {L_true, L_false} :
          \E i \in 1..Len(arms) : arms[i].pattern.k = "lit" /\ arms[i].pattern.value = v
ExhaustiveByVariants(target_ty, arms) ==
    /\ IsEnumTarget(target_ty)
    /\ \A v \in DOMAIN VariantsOf(target_ty) :
          \E i \in 1..Len(arms) :
              /\ arms[i].pattern.name = v
              /\ \/ arms[i].pattern.k = "variant"
                 \/ arms[i].pattern.k = "name" /\ PayloadLess(target_ty, v)

\* C7: a match whose arms check is accepted iff (a) some arm is a wildcard or
\* a name pattern that introduces a binding, or (b) the target is Bool and
\* the literals true and false both appear, or (c) the target is an enum and
\* every declared variant appears as a variant pattern or a payload-less
\* variant name; otherwise the diagnostic is MD3100.
C7_MatchExhaustiveness ==
    cin.op = "match" /\ ArmsCheck(cin.target_ty, cin.arms) =>
        IF \/ ExhaustiveByCatchAll(cin.target_ty, cin.arms)
           \/ ExhaustiveByBool(cin.target_ty, cin.arms)
           \/ ExhaustiveByVariants(cin.target_ty, cin.arms)
        THEN cout.code = "none"
        ELSE cout.code = "MD3100"

IsResultType(ty) == ty.name = TN_Result /\ Len(ty.args) = 2

\* C8: e? with e : inner in a function returning fn_ret: MD3105 when inner is
\* not Result[T, E] (checked first), MD3106 when fn_ret is not Result[T', E'],
\* MD3102 when E is not assignable to E', and the type T otherwise.
C8_TryTyping ==
    cin.op = "try" =>
        IF ~IsResultType(cin.inner) THEN cout.code = "MD3105"
        ELSE IF ~IsResultType(cin.fn_ret) THEN cout.code = "MD3106"
        ELSE IF EnsureAssignable(cin.fn_ret.args[2], cin.inner.args[2]) # NoMsg
        THEN cout.code = "MD3102"
        ELSE cout.code = "none" /\ cout.ty = cin.inner.args[1]

\* C8 witness: a `?` on a Result in a Result function whose error types differ
\* and are not assignable has been typed
C8_Witness ==
    /\ cin.op = "try"
    /\ IsResultType(cin.inner) /\ IsResultType(cin.fn_ret)
    /\ cin.inner.args[2] = option_type(STRING_TY)
    /\ cin.fn_ret.args[2] = option_type(INT)
    /\ cout.code = "MD3102"

(***************************************************************************)
(* Claims about the lowering (SpecLower).                                  *)
(***************************************************************************)
Blocks == DOMAIN builder.blocks
Finished == lpc = "done" /\ cerr = "none" /\ lerr = "none"

\* C5: every basic block of a lowered function has exactly one terminator:
\* terminate is never applied to a block that already has one, the block
\* the builder is at is unterminated between lowering steps, and once the
\* function is lowered every block has its terminator
C5_OneTerminatorPerBlock ==
    /\ \A i \in Blocks : builder.blocks[i].set_count <= 1
    /\ lpc = "walk" /\ lerr = "none" =>
           builder.blocks[builder.current].terminator = NoTerminator
    /\ Finished =>
           \A i \in Blocks : /\ builder.blocks[i].terminator.k \in {"br", "condbr", "ret"}
                             /\ builder.blocks[i].set_count = 1

\* a function with a return statement inside the arm of a match was lowered
C5_Witness ==
    /\ Finished
    /\ \E i, j \in Blocks : /\ builder.blocks[i].prefix = "dead"
                            /\ builder.blocks[j].prefix = "match_dead"

\* C6: a function the type checker accepts is lowered without a diagnostic
C6_AcceptedFormsAreLowered ==
    lpc = "done" /\ cerr = "none" => lerr = "none"

\* C9: once a function is checked, every expression node inside its body has an
\* entry in expr_types
C9_EveryExprHasType ==
    lpc = "done" /\ cerr = "none" =>
        \A id \in 1..(chk.nodes - 1) : id \in DOMAIN chk.expr_types

\* the blocks a terminator jumps to
Successors(i) ==
    LET t == builder.blocks[i].terminator IN
    CASE t.k = "br" -> {t.target}
      [] t.k = "condbr" -> {t.then_bb, t.else_bb}
      [] OTHER -> {}

RECURSIVE ReachableFrom(_)
ReachableFrom(S) ==
    LET N == S \cup UNION {Successors(i) : i \in S} IN
    IF N = S THEN S ELSE ReachableFrom(N)

\* C10: in a lowered function whose return type is not Void, every Return
\* that can be reached from the entry block carries a value that is a
\* parameter or a temporary
C10_ReturnsCarryValue ==
    Finished /\ fn_return_type # VOID =>
        \A i \in ReachableFrom({0}) :
            builder.blocks[i].terminator.k = "ret" =>
                builder.blocks[i].terminator.value.k \in {"arg", "tmp"}

(***************************************************************************)
(* Claims about the lowering of `e?`.                                      *)
(***************************************************************************)
TryErrBlocks == {j \in Blocks : builder.blocks[j].prefix = "try_err"}

\* the instruction of block i that defines the value v
DefinedIn(i, v) ==
    {n \in 1..Len(builder.blocks[i].instructions) : builder.blocks[i].instructions[n].target = v}

\* block i ends with CondBranch(tag(r) == 0, try_ok, j)
BranchesOnOkTag(i, j) ==
    LET blk == builder.blocks[i]
        t == blk.terminator
    IN  /\ t.k = "condbr" /\ t.else_bb = j
        /\ builder.blocks[t.then_bb].prefix = "try_ok"
        /\ \E c \in DefinedIn(i, t.cond) :
              LET cmp == blk.instructions[c]
              IN  /\ cmp.op = "binop" /\ cmp.attr = OP_eq /\ Len(cmp.args) = 2
                  /\ \E g \in DefinedIn(i, cmp.args[1]) :
                        /\ blk.instructions[g].op = "enum_tag"
                        /\ blk.instructions[g].args = <<ParamVal>>
                  /\ \E z \in DefinedIn(i, cmp.args[2]) :
                        /\ blk.instructions[z].op = "const"
                        /\ blk.instructions[z].attr = L_zero
        /\ LET ok == builder.blocks[t.then_bb]
           IN  /\ ok.instructions # <<>>
               /\ ok.instructions[1].op = "enum_field"
               /\ ok.instructions[1].args = <<ParamVal>>
               /\ ok.instructions[1].attr = L_zero

TryShape ==
    \A j \in TryErrBlocks :
        /\ builder.blocks[j].instructions = <<>>
        /\ builder.blocks[j].terminator = ReturnInstr(ParamVal)
        /\ ReachableFrom({j}) = {j}
        /\ Cardinality({i \in Blocks : BranchesOnOkTag(i, j)}) = 1
        /\ \A i \in Blocks : j \in Successors(i) => BranchesOnOkTag(i, j)

\* a step that lowers r? leaves the builder in the try_ok block it made
ContinuesInTryOk ==
    (\E j \in DOMAIN builder'.blocks :
        j \notin Blocks /\ builder'.blocks[j].prefix = "try_err") =>
    builder'.blocks[builder'.current].prefix = "try_ok"

\* C13: r? ends the current block with CondBranch(tag(r) == 0, try_ok, try_err);
\* try_err has no instructions and returns r unchanged; try_ok starts with
\* EnumField index 0 of r; lowering goes on in try_ok and nothing is reachable
\* from try_err
C13_TryLowering == [](TryShape) /\ [][ContinuesInTryOk]_vars

\* a finished lowering with r? followed by a statement that was lowered into
\* the try_ok block
C13_Witness ==
    /\ Finished
    /\ \E j \in TryErrBlocks : \E k \in Blocks :
          /\ builder.blocks[k].prefix = "try_ok"
          /\ BranchesOnOkTag(CHOOSE i \in Blocks : j \in Successors(i), j)
          /\ Len(builder.blocks[k].instructions) > 1

(***************************************************************************)
(* Claims about the Phi instructions of the lowering (SpecLower).          *)
(***************************************************************************)
\* the positions of the Phi instructions of block j
PhisOf(j) ==
    {k \in 1..Len(builder.blocks[j].instructions) : builder.blocks[j].instructions[k].op = "phi"}

\* the blocks whose terminator targets block j
Predecessors(j) == {i \in Blocks : j \in Successors(i)}

\* the blocks a Phi names in its incomings
IncomingBlocks(phi) == {phi.incomings[n][1] : n \in 1..Len(phi.incomings)}

\* C21: every Phi is the first instruction of its block, and its incomings
\* name exactly the blocks whose terminator targets that block, each once
C21_PhiIncomings ==
    \A j \in Blocks : \A k \in PhisOf(j) :
        LET phi == builder.blocks[j].instructions[k] IN
        /\ k = 1
        /\ IncomingBlocks(phi) = Predecessors(j)
        /\ Cardinality(IncomingBlocks(phi)) = Len(phi.incomings)

\* a function was lowered that has a Phi at the end of a match with two arms
\* lowered, one of them ending in the block after a return
C21_Witness ==
    /\ Finished
    /\ \E j \in Blocks :
          /\ builder.blocks[j].prefix = "match_end"
          /\ PhisOf(j) # {}
          /\ Cardinality(Predecessors(j)) = 3
          /\ \E i \in Predecessors(j) : builder.blocks[i].prefix = "dead"

\* a function was lowered that has a Phi at the join block of an if
C21_WitnessIf ==
    /\ Finished
    /\ \E j \in Blocks : builder.blocks[j].prefix = "join" /\ PhisOf(j) # {}

\* the targets of the instructions emitted so far
DefinedValues ==
    UNION {{builder.blocks[i].instructions[k].target :
                k \in 1..Len(builder.blocks[i].instructions)} : i \in Blocks}

\* C22: a Phi at the join block of an if stands for two branches that both
\* reached the join, neither by way of the block that follows a return, and
\* each incoming value is a defined, non-empty SSA name
C22_IfPhiWellFormed ==
    \A j \in Blocks : \A k \in PhisOf(j) :
        builder.blocks[j].prefix = "join" =>
            LET phi == builder.blocks[j].instructions[k] IN
            \A n \in 1..Len(phi.incomings) :
                /\ phi.incomings[n][2].k \in {"arg", "tmp"}
                /\ phi.incomings[n][2] \in DefinedValues \cup {ParamVal}
                /\ builder.blocks[phi.incomings[n][1]].prefix # "dead"

(***************************************************************************)
(* Claims about the enum layouts of a program.                             *)
(***************************************************************************)
\* a type and the types inside it
RECURSIVE TypesIn(_)
TypesIn(ty) == {ty} \cup UNION {TypesIn(ty.args[i]) : i \in 1..Len(ty.args)}

\* the types of the program's signatures and expression tables
UsedTypes ==
    UNION {TypesIn(typed.functions[f].ret)
           \cup UNION {TypesIn(typed.functions[f].params[i]) :
                         i \in 1..Len(typed.functions[f].params)}
           \cup UNION {TypesIn(typed.functions[f].expr_types[i]) :
                         i \in 1..Len(typed.functions[f].expr_types)} :
           f \in 1..Len(typed.functions)}

IsEnumType(ty) == ty.name \in DOMAIN ProgramEnums \/ ty.name \in {TN_Option, TN_Result}

\* user enums keyed by name, Option/Result by their stringified type
UsedEnumKeys ==
    {IF ty.name \in DOMAIN ProgramEnums THEN ty.name ELSE TypeStr(ty) :
        ty \in {t \in UsedTypes : IsEnumType(t)}}

Returned == ypc = "returned"
LastIR == irs[Len(irs)]

\* C11: the ProgramIR a run returns has exactly one layout for every enum key
\* used in the signatures and expression tables, every layout was built by
\* exactly one call, and payload_slots is the largest field count of its variants
C11_EnumLayouts ==
    Returned =>
        /\ {LastIR.enums[i].key : i \in 1..Len(LastIR.enums)} = UsedEnumKeys
        /\ Len(LastIR.enums) = Cardinality(UsedEnumKeys)
        /\ \A key \in UsedEnumKeys :
              Cardinality({i \in 1..Len(layout_calls) : layout_calls[i] = key}) = 1
        /\ \A i \in 1..Len(LastIR.enums) :
              LET l == LastIR.enums[i]
                  counts == {Len(l.variants[v].field_types) : v \in 1..Len(l.variants)}
              IN  /\ \A n \in counts : n <= l.payload_slots
                  /\ l.payload_slots \in counts \cup {0}

\* a run returned the layouts of Shape (two slots), of Option[Option[Int]] and
\* of the Option[Int] inside it
C11_Witness ==
    /\ Returned
    /\ \E i, j, k \in 1..Len(LastIR.enums) :
          /\ LastIR.enums[i].key = TN_Shape /\ LastIR.enums[i].payload_slots = 2
          /\ LastIR.enums[j].key = TypeStr(option_type(option_type(INT)))
          /\ LastIR.enums[k].key = TypeStr(option_type(INT))

\* C12: two runs of the pipeline on the same source return identical IR: the
\* same functions in the same order and the same enum layouts in the same order
C12_Deterministic ==
    Len(irs) = 2 => irs[1] = irs[2]

\* an enum type one of whose variants carries a value of an enum type
NestedEnumType(ty) ==
    /\ IsEnumType(ty)
    /\ IF ty.name \in DOMAIN ProgramEnums
       THEN \E v \in ProgramEnums[ty.name] :
               \E i \in 1..Len(v.field_types) : IsEnumType(v.field_types[i])
       ELSE \E i \in 1..Len(ty.args) : IsEnumType(ty.args[i])

\* C17: lowering a program that uses an enum type with an enum payload raises;
\* no ProgramIR is returned for it
C17_NestedEnumPayloadRejected ==
    (\E ty \in UsedTypes : NestedEnumType(ty)) => ~Returned

(***************************************************************************)
(* Claims about the lexer.                                                 *)
(***************************************************************************)
IdentifierShaped(s) ==
    /\ s # <<>>
    /\ IsAlpha(s[1]) \/ s[1] = "_"
    /\ \A i \in 1..Len(s) : IsAlnum(s[i]) \/ s[i] = "_"

\* the keyword kind of each reserved word
ReservedKinds ==
    (KW_fn :> "FN")
    @@ (KW_let :> "LET")
    @@ (KW_var :> "VAR")
    @@ (KW_struct :> "STRUCT")
    @@ (KW_enum :> "ENUM")
    @@ (KW_trait :> "TRAIT")
    @@ (KW_impl :> "IMPL")
    @@ (KW_pub :> "PUB")
    @@ (KW_import :> "IMPORT")
    @@ (KW_if :> "IF")
    @@ (KW_else :> "ELSE")
    @@ (KW_match :> "MATCH")
    @@ (KW_for :> "FOR")
    @@ (KW_in :> "IN")
    @@ (KW_while :> "WHILE")
    @@ (KW_loop :> "LOOP")
    @@ (KW_break :> "BREAK")
    @@ (KW_continue :> "CONTINUE")
    @@ (KW_return :> "RETURN")
    @@ (KW_task :> "TASK")
    @@ (KW_spawn :> "SPAWN")
    @@ (KW_await :> "AWAIT")
    @@ (KW_unsafe :> "UNSAFE")
    @@ (KW_extern :> "EXTERN")
    @@ (KW_error :> "ERROR")
    @@ (KW_raise :> "RAISE")
    @@ (KW_true :> "TRUE")
    @@ (KW_false :> "FALSE")

\* C14: a token whose lexeme is a reserved word has that word's keyword kind,
\* never IDENT; a token whose lexeme is any other identifier-shaped word is an
\* IDENT
C14_KeywordsTokenize ==
    \A i \in 1..Len(tokens) :
        LET t == tokens[i]
        IN  IdentifierShaped(t.lexeme) =>
               t.kind = IF t.lexeme \in ReservedWords THEN ReservedKinds[t.lexeme] ELSE "IDENT"

\* C18: tokenize ends by returning a list with exactly one EOF token, the last
\* one, or by raising a MidoriError with a code from MD1001 to MD1005 whose span
\* starts at the first character of the offending token
C18_TokenizeOutcomes ==
    /\ lexpc = "returned" =>
          /\ tokens # <<>>
          /\ \A i \in 1..Len(tokens) : (tokens[i].kind = "EOF") <=> (i = Len(tokens))
    /\ lexpc = "raised" =>
          /\ lex_error.type = "MidoriError"
          /\ lex_error.code \in {"MD1001", "MD1002", "MD1003", "MD1004", "MD1005"}
          /\ lex_error.span.start = lex_error.token_start

(***************************************************************************)
(* Claims about resolve_names.                                             *)
(***************************************************************************)
\* the kinds of duplicate that item i of the program is
DuplicateKinds(i) ==
    LET item == program[i]
        again == \E j \in 1..(i - 1) : program[j].k = item.k /\ program[j].name = item.name
    IN  (IF item.k = "fn" /\ again THEN {"function"} ELSE {})
        \cup (IF item.k = "enum" /\ again THEN {"enum"} ELSE {})
        \cup (IF item.k = "error" /\ again THEN {"error"} ELSE {})
        \cup (IF item.k = "enum" /\ \E a, b \in 1..Len(item.variants) :
                                        a # b /\ item.variants[a] = item.variants[b]
              THEN {"variant"} ELSE {})

Duplicates == {i \in 1..Len(program) : DuplicateKinds(i) # {}}
HasMain == \E i \in 1..Len(program) : program[i].k = "fn" /\ program[i].name = FN_main

\* C15: resolve_names returns iff the program has no duplicate and has a
\* function main; otherwise it raises for the first duplicate in item order,
\* and raises the missing entry point (MD3004) only when there is no duplicate
C15_ResolveNames ==
    /\ rpc = "returned" => Duplicates = {} /\ HasMain
    /\ rpc = "raised" =>
          IF Duplicates # {}
          THEN /\ resolve_error.item = CHOOSE i \in Duplicates : \A j \in Duplicates : i <= j
               /\ resolve_error.kind \in DuplicateKinds(resolve_error.item)
               /\ resolve_error.code # "MD3004"
          ELSE /\ ~HasMain
               /\ resolve_error.kind = "main"
               /\ resolve_error.code = "MD3004"
    /\ rpc = "items" /\ item_index > Len(program) => Duplicates = {}

\* resolve_names returned for a program that uses the name A for a function,
\* for an enum and for a custom error
C15_Witness ==
    /\ rpc = "returned"
    /\ \A kind \in {"fn", "enum", "error"} :
          \E i \in 1..Len(program) : program[i].k = kind /\ program[i].name = V_A

\* the code the resolver's diagnostics are documented to carry, by kind
CodeOfKind(kind) ==
    CASE kind = "function" -> "MD3001"
      [] kind = "enum" -> "MD3002"
      [] kind = "variant" -> "MD3003"
      [] kind = "main" -> "MD3004"
      [] kind = "error" -> "MD3005"

\* C25: every diagnostic resolve_names raises carries the code of its own
\* kind (MD3001 duplicate function, MD3002 duplicate enum, MD3003 duplicate
\* enum variant, MD3004 missing entry point, MD3005 duplicate custom error),
\* so that no two kinds share a code
C25_ResolverCodes ==
    rpc = "raised" => resolve_error.code = CodeOfKind(resolve_error.kind)

\* C16: the diagnostic the type checker raises for a spawn expression, an await
\* expression and a range expression carries the code MD3110
C16_UnsupportedExprCode ==
    cin.op \in UnsupportedExprs => cout.code = "MD3110"

(***************************************************************************)
(* Claims about the typing of match arms.                                  *)
(***************************************************************************)
\* the arms of a match, last arm first
ReverseArms(arms) == [i \in 1..Len(arms) |-> arms[Len(arms) + 1 - i]]

\* the unification of the arm types, as _merge_branch_types unifies the
\* branches of an if, taken from the first arm to the last
RECURSIVE UnifiedArmType(_, _)
UnifiedArmType(arms, n) ==
    IF n = 1 THEN Typed(arms[1].ty, NoMsg)
    ELSE LET before == UnifiedArmType(arms, n - 1) IN
         IF before.msg # NoMsg THEN before ELSE MergeBranchTypes(before.ty, arms[n].ty)

ArmsPairwiseAssignable(arms) ==
    \A i, j \in 1..Len(arms) : EnsureAssignable(arms[i].ty, arms[j].ty) = NoMsg

\* C26: an accepted match has pairwise assignable arm types and records the
\* unification of the arm types, and neither being accepted nor the type
\* recorded depends on the order of the arms
C26_MatchArmTyping ==
    cin.op = "match" =>
        LET reordered == Output(InferMatch(cin.target_ty, ReverseArms(cin.arms), Enums)) IN
        /\ (cout.code = "none") = (reordered.code = "none")
        /\ cout.code = "none" =>
              /\ ArmsPairwiseAssignable(cin.arms)
              /\ cout.ty = UnifiedArmType(cin.arms, Len(cin.arms)).ty
              /\ cout.ty = reordered.ty

(***************************************************************************)
(* Claims about the call of a generic function.                            *)
(***************************************************************************)
RECURSIVE MentionsTypeVar(_)
\* ty mentions a generic parameter of the function called
MentionsTypeVar(ty) ==
    \/ ty.args = <<>> /\ \E g \in 1..Len(GenericParams) : GenericParams[g] = ty.name
    \/ \E i \in 1..Len(ty.args) : MentionsTypeVar(ty.args[i])

\* positions of the call whose declared type is the bare type variable T
BareTypeVarPositions == {i \in 1..Len(cin.params) : cin.params[i] = Type(TN_T, <<>>)}

\* C27: in a call of a generic function only the generic parameters are type
\* variables: an argument that is not assignable to a parameter type that
\* mentions no generic parameter is a type mismatch (MD3102), and an accepted
\* call has every argument at a position of type T assignable to the first
\* such argument
C27_GenericCall ==
    cin.op = "call" /\ Len(cin.args) = Len(cin.params) =>
        /\ (\E i \in 1..Len(cin.params) :
               /\ ~MentionsTypeVar(cin.params[i])
               /\ EnsureAssignable(cin.params[i], cin.args[i]) # NoMsg)
           => cout.code = "MD3102"
        /\ cout.code = "none" =>
              \A i \in BareTypeVarPositions :
                  EnsureAssignable(cin.args[FirstIndex(BareTypeVarPositions)], cin.args[i]) = NoMsg

(***************************************************************************)
(* Import loading.                                                         *)
(***************************************************************************)
\* the files a file imports
ImportsOf(f) == {files[f][i].path : i \in {j \in 1..Len(files[f]) : files[f][j].k = "import"}}

\* the paths reached from the entry file by n imports or fewer
RECURSIVE ReachedWithin(_)
ReachedWithin(n) ==
    IF n = 0 THEN {Entry}
    ELSE LET before == ReachedWithin(n - 1)
         IN  before \cup UNION {ImportsOf(f) : f \in before \cap FileNames}
Reachable == ReachedWithin(Cardinality(ImportTargets))

\* the files that f reaches by one import or more
RECURSIVE ImportedWithin(_, _)
ImportedWithin(f, n) ==
    IF n = 1 THEN ImportsOf(f)
    ELSE LET before == ImportedWithin(f, n - 1)
         IN  before \cup UNION {ImportsOf(g) : g \in before \cap FileNames}
ImportClosure(f) == ImportedWithin(f, Cardinality(ImportTargets))

AllImportsExist == Reachable \subseteq FileNames
HasCycle == \E f \in Reachable \cap FileNames : f \in ImportClosure(f)

\* the positions of the items of file f in merged_items
PositionsOf(f) == {i \in 1..Len(merged_items) : merged_items[i].path = f}

LoadDone == loadpc \in {"returned", "raised"}

\* what holds of a loading, while it runs and when it has ended
LoadedAsSpecified ==
    (loadpc # "idle" /\ AllImportsExist) =>
        /\ \A f \in FileNames : parse_calls[f] <= 1
        /\ (LoadDone /\ HasCycle) =>
              /\ loadpc = "raised"
              /\ StartsWith(load_error, SubSeq(M_import_cycle, 1, Len(M_import_cycle) - 2))
        /\ (LoadDone /\ ~HasCycle) =>
              /\ loadpc = "returned"
              /\ \A f \in FileNames : parse_calls[f] = (IF f \in Reachable THEN 1 ELSE 0)
              /\ \A f \in FileNames :
                    Cardinality(PositionsOf(f)) = (IF f \in Reachable THEN 1 ELSE 0)
              /\ \A f \in Reachable : \A g \in ImportsOf(f) :
                    \A i \in PositionsOf(g) : \A j \in PositionsOf(f) : i < j
              /\ Len(ordered_sources) = Cardinality(Reachable)

C19_WitnessCycle ==
    /\ loadpc = "raised"
    /\ AllImportsExist
    /\ \E f \in Reachable : f \in ImportsOf(f)

(***************************************************************************)
(* The terminal session.                                                   *)
(***************************************************************************)
\* the line of the call just made is part of a declaration: it continues
\* the pending one, or starts one
InDeclaration ==
    \/ pending_declaration # <<>>
    \/ LooksLikeDeclarationStart(StripWs(term_line'))

\* the call just made cancels the pending declaration
Cancels ==
    /\ pending_declaration # <<>>
    /\ StripWs(term_line') \in {<<":">> \o C_cancel, <<":">> \o C_c}

\* the lines and the brace depth of the declaration with the line just given
LinesNow == Append(pending_declaration, term_line')
DepthNow == pending_brace_depth + BraceDelta(term_line')

\* the buffer is emptied and the session is as it was
Discarded ==
    /\ pending_declaration' = <<>>
    /\ pending_brace_depth' = 0
    /\ session_declarations' = session_declarations

\* the declaration was checked with the session's declarations, and with a
\* stub main when none of them defines main, and joined the session iff the
\* check succeeded
Completed ==
    LET declaration == StripWs(JoinWith(<<"\n">>, LinesNow))
        all == Append(session_declarations, declaration)
    IN  /\ pending_declaration' = <<>>
        /\ pending_brace_depth' = 0
        /\ term_check' \in {"ok", "failed"}
        /\ \A i \in 1..Len(all) : Contains(term_source', all[i])
        /\ Contains(term_source', RStrip(STUB_MAIN)) <=> ~ProgramHasMain(all)
        /\ term_check' = "ok" => session_declarations' = all
        /\ term_check' = "failed" => session_declarations' = session_declarations

\* what an execute_line call does with a line of a declaration
DeclarationStep ==
    InDeclaration =>
        IF Cancels \/ DepthNow < 0 THEN Discarded
        ELSE IF DepthNow > 0
        THEN /\ pending_declaration' = LinesNow
             /\ pending_brace_depth' = DepthNow
             /\ session_declarations' = session_declarations
        ELSE Completed

BufferIffDepth == (pending_declaration # <<>>) <=> (pending_brace_depth > 0)

\* C20: a declaration is buffered line by line while its brace depth is
\* positive and completed when the depth is back at 0; a completed
\* declaration joins the session iff checking the session with it (and a
\* stub main when none defines main) succeeds, and when checking fails the
\* session is as it was; a negative brace depth or :cancel discards the
\* buffer and leaves the session as it was; after every call the buffer is
\* non-empty iff the pending brace depth is positive.
C20_TerminalSession ==
    /\ []BufferIffDepth
    /\ [][DeclarationStep]_vars

\* the same, but for a first line whose brace depth is negative
DeclarationStepButFirstLine ==
    (InDeclaration /\ ~(pending_declaration = <<>> /\ DepthNow < 0)) => DeclarationStep

(***************************************************************************)
(* Claims about the builder's env.                                         *)
(***************************************************************************)
\* a step that enters a block, an if or a match; one that leaves it
EntersConstruct == Len(env_frames') = Len(env_frames) + 1
LeavesConstruct == Len(env_frames') = Len(env_frames) - 1

\* the copies of env taken by the constructs the builder stays inside are
\* never written to
CopiesKept ==
    \A i \in 1..Len(env_frames) :
        i <= Len(env_frames') => env_frames'[i].old_env = env_frames[i].old_env

\* C24: a block, an if and a match take a copy of env as it is just before
\* the body or the branches, and env is exactly that copy afterwards,
\* whatever was declared, bound by a pattern or assigned inside; an
\* identifier read resolves to the value env holds
C24_EnvFrame ==
    [][/\ EntersConstruct => env_frames'[Len(env_frames')].old_env = env
       /\ CopiesKept
       /\ LeavesConstruct => env' = EnvTop.old_env
       /\ env_last'.op = "read" => env_last'.val = env[env_last'.name]]_vars

\* instructions of the blocks with the given prefix
InstructionsIn(prefix) ==
    UNION {{builder.blocks[j].instructions[k] : k \in 1..Len(builder.blocks[j].instructions)} :
              j \in {i \in DOMAIN builder.blocks : builder.blocks[i].prefix = prefix}}

\* `var x := 1` `if true { x = 1; }` or `if true { var x := 1 }`: after the
\* if, x is the value of the first statement again
C24_Witness ==
    /\ env_last.op = "leave" /\ env_last.k = "if"
    /\ env_frames = <<>>
    /\ V_x \in DOMAIN env /\ env[V_x] = TmpVal(0)
    /\ V_n \notin DOMAIN env
    /\ \E ins \in InstructionsIn("then") : ins.op = "const"

\* the same for a match whose arm binds n: n is not in env afterwards
C24_WitnessMatch ==
    /\ env_last.op = "leave" /\ env_last.k = "match"
    /\ env_frames = <<>>
    /\ V_x \in DOMAIN env /\ env[V_x] = TmpVal(0)
    /\ V_n \notin DOMAIN env
    /\ \E ins \in InstructionsIn("match_arm") : ins.op = "const"

\* the instruction emitted last into the block the builder is at
LastInstruction(b) ==
    b.blocks[b.current].instructions[Len(b.blocks[b.current].instructions)]

\* C30: lowering `x op= 1` for a compound operator emits the BinOp of op's
\* operator on the value x was bound to and the value of 1, and binds x to
\* its result; only `x = 1` binds x to the value of 1
C30_CompoundAssign ==
    [][env_last'.op = "assign" =>
          LET name == env_last'.name
              aop == env_last'.aop
              value == TmpVal(builder.temp_index)
              ins == LastInstruction(builder')
          IN  IF aop = AOP_assign
              THEN env'[name] = value
              ELSE /\ ins.op = "binop"
                   /\ ins.attr = <<aop[1]>>
                   /\ ins.args = <<env[name], value>>
                   /\ env'[name] = ins.target]_vars

(***************************************************************************)
(* Claims about _parse_block.                                              *)
(***************************************************************************)
\* the BlockExpr the parser has returned
BlockReturned == BlockExpr(block_statements, block_tail)

\* the body of the block parsed: its tokens between the braces
BodyOf(toks) == SubSeq(toks, 2, Len(toks) - 3)

RECURSIVE StripNewlines(_)
\* body without the newline tokens at its end
StripNewlines(body) ==
    IF body # <<>> /\ body[Len(body)].kind = "NEWLINE"
    THEN StripNewlines(SubSeq(body, 1, Len(body) - 1))
    ELSE body

\* body ends with an expression: a literal that is not the operand of a return
EndsWithExpr(body) ==
    /\ body # <<>> /\ body[Len(body)].kind = "INT"
    /\ Len(body) > 1 => body[Len(body) - 1].kind # "RETURN"

\* C29: when the last thing in a block is an expression e with no `;` after
\* it, the block parses with e as its tail, to the BlockExpr it parses to
\* without the newlines between e and the `}`, however many these are
C29_TailAnyNewlines ==
    LET body == BodyOf(block_tokens)
        stripped == StripNewlines(body)
        alone == ParseBlock(BlockOf(stripped))
    IN  parsepc \in {"returned", "raised"} /\ EndsWithExpr(stripped) =>
           /\ (parsepc = "returned") = (alone.pc = "returned")
           /\ parsepc = "returned" =>
                 /\ block_tail = LiteralExpr(stripped[Len(stripped)].lexeme)
                 /\ BlockReturned = BlockExpr(alone.statements, alone.tail)
====
